---- MODULE Spec2Model ----
(***************************************************************************)
(* A model of CharacterSheetParser (src/src/parser.py).                    *)
(*                                                                         *)
(* A Python str is a sequence of one-character strings; a list is a        *)
(* sequence; a dict with string keys fixed by the code is a function whose *)
(* domain is the set of keys present; an insertion-ordered dict keyed by   *)
(* input text (background, notes) is a sequence of [key, body] pairs.      *)
(* The regular expressions of the parser are written out as matchers over  *)
(* character positions, with the greediness and the search order of        *)
(* Python's re.                                                            *)
(***************************************************************************)
EXTENDS Integers, Sequences, FiniteSets, TLC

VARIABLES text, lines, data, pc, batch, loop

vars == <<text, lines, data, pc, batch, loop>>

-----------------------------------------------------------------------------
(* Characters                                                              *)

UpperSeq == <<"A","B","C","D","E","F","G","H","I","J","K","L","M",
              "N","O","P","Q","R","S","T","U","V","W","X","Y","Z">>

LowerSeq == <<"a","b","c","d","e","f","g","h","i","j","k","l","m",
              "n","o","p","q","r","s","t","u","v","w","x","y","z">>

DigitSeq == <<"0","1","2","3","4","5","6","7","8","9">>

Upper == {UpperSeq[i] : i \in DOMAIN UpperSeq}

Lower == {LowerSeq[i] : i \in DOMAIN LowerSeq}

Letter == Upper \cup Lower

Digit == {DigitSeq[i] : i \in DOMAIN DigitSeq}

\* str.isspace() and the class \s of re
Space == {" ", "\t", "\n", "\r"}

\* the class \w of re
Word == Letter \cup Digit \cup {"_"}

LowerOf == [c \in Upper |-> LowerSeq[CHOOSE i \in DOMAIN UpperSeq : UpperSeq[i] = c]]

DigitVal == [c \in Digit |-> (CHOOSE i \in DOMAIN DigitSeq : DigitSeq[i] = c) - 1]

-----------------------------------------------------------------------------
(* str methods                                                             *)

\* a local variable of the code: F with v as the value of its parameter
Let(v, F(_)) == F(v)

\* s[i:] with i a 1-based position
From(s, i) == SubSeq(s, i, Len(s))

lower(s) == [i \in 1..Len(s) |-> IF s[i] \in Upper THEN LowerOf[s[i]] ELSE s[i]]

Min(S) == CHOOSE x \in S : \A y \in S : x <= y

Max(S) == 0 - Min({0 - x : x \in S})

\* the position after the maximal run of characters of class cls that starts at i
RunEnd(s, i, cls) == Min({j \in i..(Len(s) + 1) : j = Len(s) + 1 \/ s[j] \notin cls})

\* the first position >= i of s that holds no whitespace (Len(s)+1 if none)
SkipSpace(s, i) == RunEnd(s, i, Space)

\* the last position <= i of s that holds no whitespace (0 if none)
SkipSpaceBack(s, i) == Max({j \in 0..i : j = 0 \/ s[j] \notin Space})

rstrip(s) == SubSeq(s, 1, SkipSpaceBack(s, Len(s)))

lstrip(s) == From(s, SkipSpace(s, 1))

strip(s) == lstrip(rstrip(s))

\* s.startswith(prefix)
startswith(s, prefix) ==
  Len(s) >= Len(prefix) /\ SubSeq(s, 1, Len(prefix)) = prefix

\* the literal lit stands in s at position i
At(s, i, lit) ==
  i >= 1 /\ i + Len(lit) - 1 <= Len(s) /\ SubSeq(s, i, i + Len(lit) - 1) = lit

\* the match without re.IGNORECASE
AtNoCase_sensitive(s, i, lit) ==
  i >= 1 /\ i + Len(lit) - 1 <= Len(s) /\ SubSeq(s, i, i + Len(lit) - 1) = lit

\* the literal lit stands in s at position i, letter case ignored (re.IGNORECASE)
AtNoCase(s, i, lit) ==
  i >= 1 /\ i + Len(lit) - 1 <= Len(s)
  /\ lower(SubSeq(s, i, i + Len(lit) - 1)) = lower(lit)

\* lit in s
Contains(s, lit) == \E i \in 1..Len(s) : At(s, i, lit)

\* set(s) == {"-"}
OnlyDashes(s) == Len(s) > 0 /\ \A i \in 1..Len(s) : s[i] = "-"

\* the position of the first "\n" of s at or after start, 0 if there is none
FirstNewline(s, start) ==
  IF \E i \in start..Len(s) : s[i] = "\n"
  THEN CHOOSE i \in start..Len(s) :
         s[i] = "\n" /\ \A j \in start..(i - 1) : s[j] # "\n"
  ELSE 0

RECURSIVE SplitFrom(_, _)
SplitFrom(s, start) ==
  IF FirstNewline(s, start) = 0 THEN <<SubSeq(s, start, Len(s))>>
  ELSE <<SubSeq(s, start, FirstNewline(s, start) - 1)>>
       \o SplitFrom(s, FirstNewline(s, start) + 1)

\* s.split("\n"): never empty, "" gives [""]
split(s) == SplitFrom(s, 1)

RECURSIVE join(_, _)
\* sep.join(parts)
join(sep, parts) ==
  IF parts = <<>> THEN <<>>
  ELSE IF Len(parts) = 1 THEN parts[1]
  ELSE parts[1] \o sep \o join(sep, Tail(parts))

RECURSIVE DigitsValue(_, _)
DigitsValue(s, acc) ==
  IF s = <<>> THEN acc ELSE DigitsValue(Tail(s), 10 * acc + DigitVal[Head(s)])

\* the longest digit string int() converts (sys.int_info.default_max_str_digits)
MaxStrDigits == 4300

\* int(s): a ValueError unless s is a non-empty string of at most MaxStrDigits
\* digits
int(s) ==
  IF Len(s) > 0 /\ Len(s) <= MaxStrDigits /\ \A i \in 1..Len(s) : s[i] \in Digit
  THEN [ok |-> TRUE, value |-> DigitsValue(s, 0)]
  ELSE [ok |-> FALSE, value |-> 0]

-----------------------------------------------------------------------------
(* dict helpers                                                            *)

EmptyDict == <<>>

\* d[k] = v
Put(d, k, v) == (k :> v) @@ d

Has(d, k) == k \in DOMAIN d

\* An extractor either returns, v being its field then, or raises an exception,
\* v being its field as the exception leaves it.
Ok(v) == [ok |-> TRUE, value |-> v]

Raised(v) == [ok |-> FALSE, value |-> v]

\* self.data as __init__ builds it
NewData ==
  [header |-> EmptyDict, attributes |-> EmptyDict, special_abilities |-> <<>>,
   skills |-> <<>>, attacks |-> <<>>, cyphers |-> <<>>, equipment |-> <<>>,
   advancements |-> EmptyDict, background |-> <<>>, notes |-> <<>>]

-----------------------------------------------------------------------------
(* _parse_header                                                           *)

Standard == <<"S","t","a","n","d","a","r","d">>

\* only the first line is read
HeaderLines_first(ls, i) ==
  IF i # 1 \/ i > Len(ls) THEN <<>>
  ELSE IF strip(ls[i]) = <<>> \/ OnlyDashes(strip(ls[i])) THEN <<>>
  ELSE <<strip(ls[i])>>

RECURSIVE HeaderLines(_, _)
\* the stripped lines from the top up to the first blank line or rule
HeaderLines(ls, i) ==
  IF i > Len(ls) THEN <<>>
  ELSE IF strip(ls[i]) = <<>> THEN <<>>
  ELSE IF OnlyDashes(strip(ls[i])) THEN <<>>
  ELSE <<strip(ls[i])>> \o HeaderLines(ls, i + 1)

header_text(ls) == strip(join(<<" ">>, HeaderLines(ls, 1)))

NoMatch == [matched |-> FALSE]

\* Where a group (.+) or (.+?) that follows \s+ starts, \s+ starting at j: \s+ is
\* greedy and gives one character back when it runs to the end of s. 0: no match.
AfterSpaces(s, j) ==
  Let(SkipSpace(s, j), LAMBDA p :
    IF p = j THEN 0
    ELSE IF p <= Len(s) THEN p
    ELSE IF p - j >= 2 THEN Len(s)
    ELSE 0)

\* \s+<kw>\s+(?:a|an)\s+ followed by one more character, at position i, letter
\* case ignored: the position of that character, 0 if there is no match at i.
Clause(s, i, kw) ==
  IF ~(i <= Len(s) /\ s[i] \in Space) THEN 0
  ELSE Let(SkipSpace(s, i), LAMBDA a :
    IF ~AtNoCase(s, a, kw) THEN 0
    ELSE Let(SkipSpace(s, a + Len(kw)), LAMBDA b :
      IF b = a + Len(kw) THEN 0
      ELSE IF AtNoCase(s, b, <<"a">>) /\ AfterSpaces(s, b + 1) # 0
        THEN AfterSpaces(s, b + 1)
      ELSE IF AtNoCase(s, b, <<"a","n">>) /\ AfterSpaces(s, b + 2) # 0
        THEN AfterSpaces(s, b + 2)
      ELSE 0))

\* the least position >= i where Clause matches, 0 if none
FirstClause(s, i, kw) ==
  Let({j \in i..Len(s) : Clause(s, j, kw) # 0}, LAMBDA found :
    IF found = {} THEN 0 ELSE Min(found))

\* re.match(r"^(.+?)\s+is\s+(?:a|an)\s+(.+?)(?:\s+in\s+(?:a|an)\s+(.+?))?$", t, re.I)
\* g3 is None in Python when has3 is FALSE.
HeaderMatch(t) ==
  Let(FirstClause(t, 2, <<"i","s">>), LAMBDA i :
    IF i = 0 THEN [matched |-> FALSE]
    ELSE Let(Clause(t, i, <<"i","s">>), LAMBDA p2 :
         Let(FirstClause(t, p2 + 1, <<"i","n">>), LAMBDA q :
           [matched |-> TRUE,
            g1 |-> SubSeq(t, 1, i - 1),
            g2 |-> IF q = 0 THEN From(t, p2) ELSE SubSeq(t, p2, q - 1),
            has3 |-> q # 0,
            g3 |-> IF q = 0 THEN <<>> ELSE From(t, Clause(t, q, <<"i","n">>))])))

\* \s+who\s+|\s+with\s+ at position i, letter case ignored: the position after
\* the separator, 0 if there is no match at i.
Separator(s, i) ==
  IF ~(i <= Len(s) /\ s[i] \in Space) THEN 0
  ELSE Let(SkipSpace(s, i), LAMBDA a :
    IF AtNoCase(s, a, <<"w","h","o">>) /\ SkipSpace(s, a + 3) > a + 3
      THEN SkipSpace(s, a + 3)
    ELSE IF AtNoCase(s, a, <<"w","i","t","h">>) /\ SkipSpace(s, a + 4) > a + 4
      THEN SkipSpace(s, a + 4)
    ELSE 0)

RECURSIVE SplitDescriptors(_, _)
\* re.split(r"\s+who\s+|\s+with\s+", s, flags=re.IGNORECASE), from position start on
SplitDescriptors(s, start) ==
  Let({j \in start..Len(s) : Separator(s, j) # 0}, LAMBDA found :
    IF found = {} THEN <<SubSeq(s, start, Len(s))>>
    ELSE <<SubSeq(s, start, Min(found) - 1)>>
         \o SplitDescriptors(s, Separator(s, Min(found))))

\* [p.strip() for p in parts if p and p.strip()]
StripParts(parts) ==
  SelectSeq([k \in 1..Len(parts) |-> strip(parts[k])], LAMBDA x : x # <<>>)

DescriptorKeys == <<"type", "focus", "flavor">>

\* the descriptors of lines 99-104 put into the header h
Descriptors(h, parts) ==
  [k \in {DescriptorKeys[j] : j \in (1..Len(parts)) \cap DOMAIN DescriptorKeys}
     |-> parts[CHOOSE j \in DOMAIN DescriptorKeys : DescriptorKeys[j] = k]]
  @@ h

\* the header without the default of line 90: world is set only when group 3 took part
HeaderRecord_nodefault(m) ==
  Descriptors(IF m.has3
              THEN Put(Put(EmptyDict, "name", strip(m.g1)), "world", m.g3)
              ELSE Put(EmptyDict, "name", strip(m.g1)),
              StripParts(SplitDescriptors(m.g2, 1)))

\* data["header"] after the assignments of lines 88-104
HeaderRecord(m) ==
  Descriptors(Put(Put(EmptyDict, "name", strip(m.g1)),
                  "world", IF m.has3 /\ m.g3 # <<>> THEN m.g3 ELSE Standard),
              StripParts(SplitDescriptors(m.g2, 1)))

\* The header field after _parse_header, h being the field before it. The
\* assignments of lines 92-104 write into the existing dict; no path raises.
parse_header(ls, h) ==
  IF ls = <<>> THEN Ok(h)
  ELSE Let(header_text(ls), LAMBDA t :
    IF t = <<>> THEN Ok(h)
    ELSE Let(HeaderMatch(t), LAMBDA m :
      IF ~m.matched THEN Ok(h) ELSE Ok(HeaderRecord(m) @@ h)))

-----------------------------------------------------------------------------
(* _parse_attributes, _extract_pool_line                                   *)

MightPrefix == <<"M","i","g","h","t",":">>

SpeedPrefix == <<"S","p","e","e","d",":">>

IntellectPrefix == <<"I","n","t","e","l","l","e","c","t",":">>

InitiativePrefix == <<"I","n","i","t","i","a","t","i","v","e",":">>

EffortPrefix == <<"E","f","f","o","r","t",":">>

ArmorPrefix == <<"A","r","m","o","r",":">>

ExperiencePrefix == <<"E","x","p","e","r","i","e","n","c","e"," ","P","o","i","n","t","s",":">>

RecoveryPrefix == <<"R","e","c","o","v","e","r","y"," ","R","o","l","l",":">>

PoolLabel == <<"P","o","o","l",":">>

EdgeLabel == <<"E","d","g","e",":">>

DefenseLabel == <<"D","e","f","e","n","s","e",":">>

\* <lit>\s+(<cls>+) at position i: [matched, g1, end], end the position after it
LabelAt(s, i, lit, cls) ==
  IF ~At(s, i, lit) THEN NoMatch
  ELSE Let(SkipSpace(s, i + Len(lit)), LAMBDA b :
       Let(RunEnd(s, b, cls), LAMBDA e :
         IF b > i + Len(lit) /\ e > b
         THEN [matched |-> TRUE, g1 |-> SubSeq(s, b, e - 1), end |-> e]
         ELSE NoMatch))

\* re.search(<lit>\s+(<cls>+), s): the leftmost match
SearchLabel(s, lit, cls) ==
  Let({j \in 1..Len(s) : LabelAt(s, j, lit, cls).matched}, LAMBDA found :
    IF found = {} THEN NoMatch ELSE LabelAt(s, Min(found), lit, cls))

\* re.search(<lit>\s+(.+), s): the leftmost match
SearchRest(s, lit) ==
  Let({j \in 1..Len(s) : At(s, j, lit) /\ AfterSpaces(s, j + Len(lit)) # 0},
      LAMBDA found :
        IF found = {} THEN NoMatch
        ELSE [matched |-> TRUE, g1 |-> From(s, AfterSpaces(s, Min(found) + Len(lit)))])

\* <lit>\s+(<cls>+) at the position that \s+ reaches from position i
NextLabel(s, i, lit, cls) ==
  Let(SkipSpace(s, i), LAMBDA e :
    IF e = i THEN NoMatch ELSE LabelAt(s, e, lit, cls))

\* Pool:\s+(\d+)\s+Edge:\s+(\d+)\s+Defense:\s+(\w+) at position i
PoolAt(s, i) ==
  Let(LabelAt(s, i, PoolLabel, Digit), LAMBDA m1 :
    IF ~m1.matched THEN NoMatch
    ELSE Let(NextLabel(s, m1.end, EdgeLabel, Digit), LAMBDA m2 :
      IF ~m2.matched THEN NoMatch
      ELSE Let(NextLabel(s, m2.end, DefenseLabel, Word), LAMBDA m3 :
        IF ~m3.matched THEN NoMatch
        ELSE [matched |-> TRUE, g1 |-> m1.g1, g2 |-> m2.g1, g3 |-> m3.g1])))

\* re.search(r"Pool:\s+(\d+)\s+Edge:\s+(\d+)\s+Defense:\s+(\w+)", s)
SearchPool(s) ==
  Let({j \in 1..Len(s) : PoolAt(s, j).matched}, LAMBDA found :
    IF found = {} THEN NoMatch ELSE PoolAt(s, Min(found)))

\* attrs after _extract_pool_line(attr_name, line); attr is attr_name.lower()
extract_pool_line(attrs, attr, line) ==
  Let(SearchPool(line), LAMBDA m :
    IF ~m.matched THEN Ok(attrs)
    ELSE Let(int(m.g1), LAMBDA pool :
         Let(int(m.g2), LAMBDA edge :
           IF ~(pool.ok /\ edge.ok) THEN Raised(attrs)
           ELSE Ok(Put(attrs, attr, [pool |-> pool.value, edge |-> edge.value,
                                     defense |-> m.g3])))))

\* attrs[key] = int(match.group(1)) if the pattern <lit>\s+(<cls>+) is found
IntAttribute(attrs, key, line, lit, cls) ==
  Let(SearchLabel(line, lit, cls), LAMBDA m :
    IF ~m.matched THEN Ok(attrs)
    ELSE Let(int(m.g1), LAMBDA n :
      IF ~n.ok THEN Raised(attrs) ELSE Ok(Put(attrs, key, n.value))))

\* attrs[key] = match.group(1) if the match m is found
StrAttribute(attrs, key, m) ==
  IF m.matched THEN Ok(Put(attrs, key, m.g1)) ELSE Ok(attrs)

\* the body of the loop of _parse_attributes for one line
AttributeLine(attrs, line) ==
  IF startswith(line, MightPrefix) THEN extract_pool_line(attrs, "might", line)
  ELSE IF startswith(line, SpeedPrefix) THEN extract_pool_line(attrs, "speed", line)
  ELSE IF startswith(line, IntellectPrefix)
    THEN extract_pool_line(attrs, "intellect", line)
  ELSE IF startswith(line, InitiativePrefix)
    THEN StrAttribute(attrs, "initiative", SearchLabel(line, InitiativePrefix, Word))
  ELSE IF startswith(line, EffortPrefix)
    THEN IntAttribute(attrs, "effort", line, EffortPrefix, Digit)
  ELSE IF startswith(line, ArmorPrefix)
    THEN IntAttribute(attrs, "armor", line, ArmorPrefix, Digit)
  ELSE IF startswith(line, ExperiencePrefix)
    THEN IntAttribute(attrs, "xp", line, ExperiencePrefix, Digit)
  ELSE IF startswith(line, RecoveryPrefix)
    THEN StrAttribute(attrs, "recovery_roll", SearchRest(line, RecoveryPrefix))
  ELSE Ok(attrs)

RECURSIVE AttributeLoop(_, _, _)
\* the loop of _parse_attributes from line i on; an exception ends it
AttributeLoop(ls, i, attrs) ==
  IF i > Len(ls) THEN Ok(attrs)
  ELSE Let(AttributeLine(attrs, ls[i]), LAMBDA r :
    IF ~r.ok THEN r ELSE AttributeLoop(ls, i + 1, r.value))

\* the attributes field after _parse_attributes, attrs being the field before it
parse_attributes(ls, attrs) == AttributeLoop(ls, 1, attrs)

-----------------------------------------------------------------------------
(* _section_order, _get_section_content                                    *)

SpecialAbilities == <<"S","p","e","c","i","a","l"," ","A","b","i","l","i","t","i","e","s">>

Skills == <<"S","k","i","l","l","s">>

Attacks == <<"A","t","t","a","c","k","s">>

Cyphers == <<"C","y","p","h","e","r","s">>

Equipment == <<"E","q","u","i","p","m","e","n","t">>

Advancements == <<"A","d","v","a","n","c","e","m","e","n","t","s">>

Background == <<"B","a","c","k","g","r","o","u","n","d">>

Notes == <<"N","o","t","e","s">>

section_order ==
  <<SpecialAbilities, Skills, Attacks, Cyphers, Equipment, Advancements,
    Background, Notes>>

\* line.strip().lower() == marker.strip().lower()
IsMarker(line, marker) == lower(strip(line)) = lower(strip(marker))

RECURSIVE FindMarker(_, _, _)
\* the 1-based index of the first line from i on that is the marker, 0 if none
FindMarker(ls, i, marker) ==
  IF i > Len(ls) THEN 0
  ELSE IF IsMarker(ls[i], marker) THEN i
  ELSE FindMarker(ls, i + 1, marker)

\* every other name of the order ends the section, the earlier ones included
next_headers_any(marker) ==
  {lower(section_order[k]) : k \in DOMAIN section_order} \ {lower(strip(marker))}

\* lowered_order[pos + 1:] as a set; every name when the marker is not in the order
next_headers(marker) ==
  IF \E k \in DOMAIN section_order : lower(section_order[k]) = lower(strip(marker))
  THEN Let(CHOOSE k \in DOMAIN section_order :
             /\ lower(section_order[k]) = lower(strip(marker))
             /\ \A j \in 1..(k - 1) : lower(section_order[j]) # lower(strip(marker)),
           LAMBDA pos : {lower(section_order[k]) : k \in (pos + 1)..Len(section_order)})
  ELSE {lower(section_order[k]) : k \in DOMAIN section_order}

\* the start of the content taken after the last line that is the marker
StartIdx_last(ls, marker) ==
  Let(Max({i \in 1..Len(ls) : IsMarker(ls[i], marker)} \cup {0}), LAMBDA h :
    IF h = 0 THEN 0
    ELSE IF h + 1 <= Len(ls) /\ startswith(strip(ls[h + 1]), <<"-","-","-">>)
      THEN h + 2
    ELSE h + 1)

\* The 1-based index of the first line of the content: the line after the
\* header, or the one after that when the line after the header starts with
\* "---". 0 when the section is absent.
StartIdx(ls, marker) ==
  Let(FindMarker(ls, 1, marker), LAMBDA h :
    IF h = 0 THEN 0
    ELSE IF h + 1 <= Len(ls) /\ startswith(strip(ls[h + 1]), <<"-","-","-">>)
      THEN h + 2
    ELSE h + 1)

\* no header ends the section: it runs to the end of the text
FindEnd_none(ls, i, headers) == Len(ls) + 1

RECURSIVE FindEnd(_, _, _)
\* the index of the first line from i on that is one of the headers, else Len(ls)+1
FindEnd(ls, i, headers) ==
  IF i > Len(ls) THEN Len(ls) + 1
  ELSE IF lower(strip(ls[i])) \in headers THEN i
  ELSE FindEnd(ls, i + 1, headers)

\* the 1-based index of the line after the last line of the section
EndIdx(ls, marker) == FindEnd(ls, StartIdx(ls, marker), next_headers(marker))

\* the line is kept in the content: not empty and not made of dashes only
KeptLine(line) == rstrip(line) # <<>> /\ ~OnlyDashes(rstrip(line))

\* lines[first:last + 1] as the content: the kept lines, each rstripped
Content(ls, first, last) ==
  Let(SelectSeq(SubSeq(ls, first, last), KeptLine), LAMBDA kept :
    [k \in 1..Len(kept) |-> rstrip(kept[k])])

\* _get_section_content without the return of lines 171-172: a section whose
\* header is absent extends over the whole text
get_section_content_whole(ls, marker) ==
  Let(StartIdx(ls, marker), LAMBDA start :
    IF start = 0 THEN Content(ls, 1, Len(ls))
    ELSE Content(ls, start, FindEnd(ls, start, next_headers(marker)) - 1))

\* _get_section_content(start_marker) (no caller passes end_marker)
get_section_content(ls, marker) ==
  Let(StartIdx(ls, marker), LAMBDA start :
    IF start = 0 THEN <<>>
    ELSE Content(ls, start, FindEnd(ls, start, next_headers(marker)) - 1))

-----------------------------------------------------------------------------
(* The entity loops: a loop state is the output list and the entity under  *)
(* construction (cur: the empty sequence for None, else one entity).       *)

Indented(line) == startswith(line, <<"\t">>) \/ startswith(line, <<" ">>)

\* the flush puts the finished entity in front of the list
FlushOpen_prepend(st, ent) == [out |-> st.cur \o st.out, cur |-> <<ent>>]

\* flush the open entity, if any, then open ent
FlushOpen(st, ent) == [out |-> st.out \o st.cur, cur |-> <<ent>>]

\* the line goes to the description of the entity appended last as well: the
\* entry in the list and the entity under construction are one object
Describe_alias(st, line) ==
  [out |-> IF st.out = <<>> THEN st.out
           ELSE [st.out EXCEPT ![Len(st.out)].description = @ \o <<strip(line)>>],
   cur |-> <<[st.cur[1] EXCEPT !.description = @ \o <<strip(line)>>]>>]

\* append the stripped line to the open entity's description
Describe(st, line) ==
  [out |-> st.out,
   cur |-> <<[st.cur[1] EXCEPT !.description = @ \o <<strip(line)>>]>>]

\* the loop without the append after it: the last entity is lost
FlushLast_missing(st) == st.out

\* the append after the loop
FlushLast(st) == st.out \o st.cur

\* the loop body of _parse_special_abilities
AbilityStart(line) == line # <<>> /\ ~Indented(line) /\ strip(line) # <<>>

AbilityStep(st, line) ==
  IF AbilityStart(line)
  THEN FlushOpen(st, [name |-> strip(line), description |-> <<>>])
  ELSE IF st.cur # <<>> /\ strip(line) # <<>> THEN Describe(st, line)
  ELSE st

\* \s+\((\w+)\)\s*$ at position j of s: the (\w+) group, <<>> if no match
SkillTailAt(s, j) ==
  IF ~(j <= Len(s) /\ s[j] \in Space) THEN <<>>
  ELSE Let(SkipSpace(s, j), LAMBDA a :
       Let(RunEnd(s, a + 1, Word), LAMBDA e :
         IF At(s, a, <<"(">>) /\ e > a + 1 /\ At(s, e, <<")">>)
            /\ SkipSpace(s, e + 1) = Len(s) + 1
         THEN SubSeq(s, a + 1, e - 1)
         ELSE <<>>))

FirstSkillTail(s, j) ==
  Let({k \in j..Len(s) : SkillTailAt(s, k) # <<>>}, LAMBDA found :
    IF found = {} THEN 0 ELSE Min(found))

\* re.match(r"(\w.+?)\s+\((\w+)\)\s*$", s)
SkillMatch(s) ==
  IF ~(Len(s) >= 1 /\ s[1] \in Word) THEN NoMatch
  ELSE Let(FirstSkillTail(s, 3), LAMBDA j :
    IF j = 0 THEN NoMatch
    ELSE [matched |-> TRUE, g1 |-> SubSeq(s, 1, j - 1), g2 |-> SkillTailAt(s, j)])

\* re.match(r"^[\w].+\s+\(\w+\)", s), as a truth value
LooksLikeSkill(s) ==
  /\ Len(s) >= 1 /\ s[1] \in Word
  /\ \E p \in 4..Len(s) :
       /\ s[p] = "(" /\ s[p - 1] \in Space
       /\ RunEnd(s, p + 1, Word) > p + 1
       /\ At(s, RunEnd(s, p + 1, Word), <<")">>)

\* the loop body of _parse_skills
SkillStep(st, line) ==
  Let(SkillMatch(strip(line)), LAMBDA m :
    IF m.matched
    THEN FlushOpen(st, [name |-> m.g1, level |-> m.g2, description |-> <<>>])
    ELSE IF st.cur # <<>> /\ strip(line) # <<>> /\ ~LooksLikeSkill(strip(line))
      THEN Describe(st, line)
    ELSE st)

MaxAttackName == 50

\* re.match(r"^([A-Za-z\s]+)$", s), as a truth value
LettersOnly(s) == Len(s) > 0 /\ \A i \in 1..Len(s) : s[i] \in Letter \cup Space

\* the line opens a new attack
AttackStart(line) ==
  /\ line # <<>> /\ ~startswith(line, <<"\t">>) /\ strip(line) # <<>>
  /\ LettersOnly(strip(line)) /\ Len(strip(line)) < MaxAttackName

\* the loop body of _parse_attacks
AttackStep(st, line) ==
  IF line # <<>> /\ ~startswith(line, <<"\t">>) /\ strip(line) # <<>>
  THEN IF LettersOnly(strip(line)) /\ Len(strip(line)) < MaxAttackName
       THEN FlushOpen(st, [name |-> strip(line), description |-> <<>>])
       ELSE IF st.cur # <<>> THEN Describe(st, line)
       ELSE st
  ELSE IF st.cur # <<>> /\ strip(line) # <<>> THEN Describe(st, line)
  ELSE st

LevelLabel == <<"(","L","e","v","e","l">>

\* ")" at position k of s with nothing but whitespace after it: \)\s*$
ClosesAt(s, k) == k <= Len(s) /\ s[k] = ")" /\ SkipSpace(s, k + 1) = Len(s) + 1

\* re.match(r"^([A-Za-z\s]+)\s+\(Level\s+(\d+),\s+(.+?)\)\s*$", s)
CypherMatch(s) ==
  Let(RunEnd(s, 1, Letter \cup Space), LAMBDA p :
    IF ~(p >= 3 /\ s[p - 1] \in Space /\ At(s, p, LevelLabel)) THEN NoMatch
    ELSE Let(SkipSpace(s, p + Len(LevelLabel)), LAMBDA b :
         Let(RunEnd(s, b, Digit), LAMBDA e :
           IF ~(b > p + Len(LevelLabel) /\ e > b /\ At(s, e, <<",">>)) THEN NoMatch
           ELSE Let(SkipSpace(s, e + 1), LAMBDA w :
             IF w = e + 1 THEN NoMatch
             ELSE Let({k \in (w + 1)..Len(s) : ClosesAt(s, k)}, LAMBDA closers :
               IF closers # {}
               THEN [matched |-> TRUE, g1 |-> SubSeq(s, 1, p - 2),
                     g2 |-> SubSeq(s, b, e - 1), g3 |-> SubSeq(s, w, Min(closers) - 1)]
               ELSE IF ClosesAt(s, w) /\ w - (e + 1) >= 2
                 THEN [matched |-> TRUE, g1 |-> SubSeq(s, 1, p - 2),
                       g2 |-> SubSeq(s, b, e - 1), g3 |-> SubSeq(s, w - 1, w - 1)]
               ELSE NoMatch)))))

\* the loop body of _parse_cyphers on a line whose level int() converts
CypherStep(st, line) ==
  Let(CypherMatch(strip(line)), LAMBDA m :
    IF m.matched
    THEN FlushOpen(st, [name |-> strip(m.g1), level |-> int(m.g2).value,
                        type |-> m.g3, description |-> <<>>])
    ELSE IF st.cur # <<>> /\ strip(line) # <<>> THEN Describe(st, line)
    ELSE st)

\* the loop state before the first line
LoopStart(field) == [out |-> field, cur |-> <<>>]

RECURSIVE AbilityLoop(_, _, _)
AbilityLoop(content, i, st) ==
  IF i > Len(content) THEN st
  ELSE AbilityLoop(content, i + 1, AbilityStep(st, content[i]))

RECURSIVE SkillLoop(_, _, _)
SkillLoop(content, i, st) ==
  IF i > Len(content) THEN st
  ELSE SkillLoop(content, i + 1, SkillStep(st, content[i]))

RECURSIVE AttackLoop(_, _, _)
AttackLoop(content, i, st) ==
  IF i > Len(content) THEN st
  ELSE AttackLoop(content, i + 1, AttackStep(st, content[i]))

\* int() raises on the level of the line: the open cypher has been appended
\* (lines 342-343) and the new one is not built
CypherRaises(line) ==
  Let(CypherMatch(strip(line)), LAMBDA m : m.matched /\ ~int(m.g2).ok)

RECURSIVE CypherLoop(_, _, _)
\* the loop of _parse_cyphers and the append after it
CypherLoop(content, i, st) ==
  IF i > Len(content) THEN Ok(FlushLast(st))
  ELSE IF CypherRaises(content[i]) THEN Raised(st.out \o st.cur)
  ELSE CypherLoop(content, i + 1, CypherStep(st, content[i]))

\* each field after its extractor, field being the list before it
parse_special_abilities(ls, field) ==
  FlushLast(AbilityLoop(get_section_content(ls, SpecialAbilities), 1, LoopStart(field)))

parse_skills(ls, field) ==
  FlushLast(SkillLoop(get_section_content(ls, Skills), 1, LoopStart(field)))

parse_attacks(ls, field) ==
  FlushLast(AttackLoop(get_section_content(ls, Attacks), 1, LoopStart(field)))

parse_cyphers(ls, field) ==
  CypherLoop(get_section_content(ls, Cyphers), 1, LoopStart(field))

-----------------------------------------------------------------------------
(* _parse_equipment, _parse_advancements                                   *)

MoneyPrefix == <<"M","o","n","e","y",":">>

TierLabel == <<"T","i","e","r",":">>

\* the loop body of _parse_equipment
EquipmentStep(field, line) ==
  IF startswith(strip(line), <<"-">>)
  THEN field \o <<strip(Tail(strip(line)))>>
  ELSE IF strip(line) # <<>> /\ ~startswith(strip(line), MoneyPrefix)
    THEN field \o <<strip(line)>>
  ELSE field

RECURSIVE EquipmentLoop(_, _, _)
EquipmentLoop(content, i, field) ==
  IF i > Len(content) THEN field
  ELSE EquipmentLoop(content, i + 1, EquipmentStep(field, content[i]))

\* _parse_equipment over every kept line of the text, section or not
parse_equipment_unsegmented(ls, field) == EquipmentLoop(Content(ls, 1, Len(ls)), 1, field)

parse_equipment(ls, field) ==
  EquipmentLoop(get_section_content(ls, Equipment), 1, field)

\* the loop body of _parse_advancements; adv is the advancements dict
AdvancementStep(adv, line) ==
  IF Contains(line, TierLabel)
  THEN Let(SearchLabel(line, TierLabel, Digit), LAMBDA m :
         IF ~m.matched THEN Ok(adv)
         ELSE Let(int(m.g1), LAMBDA n :
           IF ~n.ok THEN Raised(adv) ELSE Ok(Put(adv, "tier", n.value))))
  ELSE IF startswith(strip(line), <<"[">>)
    THEN Ok(Put(adv, "choices",
                (IF Has(adv, "choices") THEN adv["choices"] ELSE <<>>)
                \o <<strip(line)>>))
  ELSE Ok(adv)

RECURSIVE AdvancementLoop(_, _, _)
AdvancementLoop(content, i, adv) ==
  IF i > Len(content) THEN Ok(adv)
  ELSE Let(AdvancementStep(adv, content[i]), LAMBDA r :
    IF ~r.ok THEN r ELSE AdvancementLoop(content, i + 1, r.value))

parse_advancements(ls, adv) ==
  AdvancementLoop(get_section_content(ls, Advancements), 1, adv)

-----------------------------------------------------------------------------
(* _looks_like_subsection_header, _parse_background, _parse_notes          *)

MaxHeaderWords == 8

MaxHeaderChars == 80

ShortHeaderWords == 3

SentenceEnd == {".", "!", "?", ":"}

SentencePrefixes ==
  {<<"y","o","u"," ">>, <<"t","h","i","s"," ">>, <<"t","h","e","y"," ">>, <<"t","h","e"," ">>, <<"a"," ">>, <<"a","n"," ">>, <<"y","o","u","r"," ">>, <<"p","o","s","s","i","b","l","e"," ">>,
   <<"s","o","m","e","t","i","m","e","s"," ">>, <<"d","e","p","e","n","d","i","n","g"," ">>}

\* len(s.split())
WordCount(s) ==
  Cardinality({i \in 1..Len(s) : s[i] \notin Space /\ (i = 1 \/ s[i - 1] \in Space)})

\* s == s.title()
IsTitle(s) ==
  \A i \in 1..Len(s) :
    s[i] \in Letter =>
      IF i > 1 /\ s[i - 1] \in Letter THEN s[i] \in Lower ELSE s[i] \in Upper

\* the heuristic with the accepting test for short lines put first
looks_like_subsection_header_short(line) ==
  IF line = <<>> THEN FALSE
  ELSE Let(strip(line), LAMBDA s :
    IF s = <<>> THEN FALSE
    ELSE IF OnlyDashes(s) THEN FALSE
    ELSE IF WordCount(s) <= ShortHeaderWords THEN TRUE
    ELSE IF s[Len(s)] \in SentenceEnd THEN FALSE
    ELSE IF \E prefix \in SentencePrefixes : startswith(lower(s), prefix) THEN FALSE
    ELSE IF WordCount(s) > MaxHeaderWords \/ Len(s) > MaxHeaderChars THEN FALSE
    ELSE IF IsTitle(s) THEN TRUE
    ELSE FALSE)

looks_like_subsection_header(line) ==
  IF line = <<>> THEN FALSE
  ELSE Let(strip(line), LAMBDA s :
    IF s = <<>> THEN FALSE
    ELSE IF OnlyDashes(s) THEN FALSE
    ELSE IF s[Len(s)] \in SentenceEnd THEN FALSE
    ELSE IF \E prefix \in SentencePrefixes : startswith(lower(s), prefix) THEN FALSE
    ELSE IF WordCount(s) > MaxHeaderWords \/ Len(s) > MaxHeaderChars THEN FALSE
    ELSE IF IsTitle(s) \/ WordCount(s) <= ShortHeaderWords THEN TRUE
    ELSE FALSE)

\* d.setdefault(key, []): a key already present keeps its body
SetEmpty_keep(d, key) ==
  IF \E k \in 1..Len(d) : d[k].key = key
  THEN d
  ELSE d \o <<[key |-> key, body |-> <<>>]>>

\* d[key] = [] on an insertion-ordered dict: a key already present keeps its place
SetEmpty(d, key) ==
  IF \E k \in 1..Len(d) : d[k].key = key
  THEN [k \in 1..Len(d) |-> IF d[k].key = key THEN [key |-> key, body |-> <<>>] ELSE d[k]]
  ELSE d \o <<[key |-> key, body |-> <<>>]>>

\* the item goes to the body of every subsection
AppendTo_all(d, key, item) ==
  [k \in 1..Len(d) |-> [d[k] EXCEPT !.body = @ \o <<item>>]]

\* d[key].append(item)
AppendTo(d, key, item) ==
  [k \in 1..Len(d) |-> IF d[k].key = key THEN [d[k] EXCEPT !.body = @ \o <<item>>] ELSE d[k]]

\* The loop body of _parse_background and of _parse_notes. A loop state is the
\* dict and current_subsection (cur: the empty sequence for None, else the key).
SubsectionStep(st, line) ==
  IF line # <<>> /\ ~startswith(line, <<"\t">>) /\ looks_like_subsection_header(line)
  THEN [dict |-> SetEmpty(st.dict, strip(line)), cur |-> <<strip(line)>>]
  ELSE IF st.cur # <<>> /\ st.cur[1] # <<>> /\ strip(line) # <<>>
    THEN [dict |-> AppendTo(st.dict, st.cur[1], strip(line)), cur |-> st.cur]
  ELSE st

RECURSIVE SubsectionLoop(_, _, _)
SubsectionLoop(content, i, st) ==
  IF i > Len(content) THEN st
  ELSE SubsectionLoop(content, i + 1, SubsectionStep(st, content[i]))

parse_background(ls, d) ==
  SubsectionLoop(get_section_content(ls, Background), 1, [dict |-> d, cur |-> <<>>]).dict

parse_notes(ls, d) ==
  SubsectionLoop(get_section_content(ls, Notes), 1, [dict |-> d, cur |-> <<>>]).dict

-----------------------------------------------------------------------------
(* The parser instances. Each instance p has its own lines[p] and data[p]; *)
(* pc[p] is the place of the call of parse() on p: the extractor that runs *)
(* next, "done" once parse() has returned self.data, "raised" once an      *)
(* exception has left parse().                                             *)

\* the extractor that follows the one that left the record r, with its field
\* f: it runs on r unless an exception has already left parse()
Then(r, f, Extract(_)) ==
  IF ~r.ok THEN r
  ELSE Let(Extract(r.value[f]), LAMBDA x :
    [ok |-> x.ok, value |-> [r.value EXCEPT ![f] = x.value]])

\* CharacterSheetParser(text).parse() as a function of the lines of the text:
\* the record returned, or the record as the exception of an extractor leaves it
parse(ls) ==
  Then(Then(Then(Then(Then(Then(Then(Then(Then(Then(Ok(NewData),
    "header", LAMBDA h : parse_header(ls, h)),
    "attributes", LAMBDA a : parse_attributes(ls, a)),
    "special_abilities", LAMBDA f : Ok(parse_special_abilities(ls, f))),
    "skills", LAMBDA f : Ok(parse_skills(ls, f))),
    "attacks", LAMBDA f : Ok(parse_attacks(ls, f))),
    "cyphers", LAMBDA f : parse_cyphers(ls, f)),
    "equipment", LAMBDA f : Ok(parse_equipment(ls, f))),
    "advancements", LAMBDA d : parse_advancements(ls, d)),
    "background", LAMBDA d : Ok(parse_background(ls, d))),
    "notes", LAMBDA d : Ok(parse_notes(ls, d)))

Parsers == DOMAIN pc

\* self.data as a class attribute: one record shared by every instance
Store_shared(p, d) == [q \in DOMAIN data |-> d]

\* self.data of instance p becomes d: an instance attribute, set in __init__
Store(p, d) == [data EXCEPT ![p] = d]

\* One extractor call of parse() on instance p: its result is stored and parse()
\* goes on to the next call, or the exception leaves parse().
Run(p, label, next, f, result) ==
  /\ pc[p] = label
  /\ data' = Store(p, [data[p] EXCEPT ![f] = result.value])
  /\ pc' = [pc EXCEPT ![p] = IF result.ok THEN next ELSE "raised"]
  /\ UNCHANGED <<text, lines, batch, loop>>

ParseHeader ==
  \E p \in Parsers :
    Run(p, "header", "attributes", "header", parse_header(lines[p], data[p].header))

ParseAttributes ==
  \E p \in Parsers :
    Run(p, "attributes", "special_abilities", "attributes",
        parse_attributes(lines[p], data[p].attributes))

ParseSpecialAbilities ==
  \E p \in Parsers :
    Run(p, "special_abilities", "skills", "special_abilities",
        Ok(parse_special_abilities(lines[p], data[p].special_abilities)))

ParseSkills ==
  \E p \in Parsers :
    Run(p, "skills", "attacks", "skills", Ok(parse_skills(lines[p], data[p].skills)))

ParseAttacks ==
  \E p \in Parsers :
    Run(p, "attacks", "cyphers", "attacks", Ok(parse_attacks(lines[p], data[p].attacks)))

ParseCyphers ==
  \E p \in Parsers :
    Run(p, "cyphers", "equipment", "cyphers", parse_cyphers(lines[p], data[p].cyphers))

ParseEquipment ==
  \E p \in Parsers :
    Run(p, "equipment", "advancements", "equipment",
        Ok(parse_equipment(lines[p], data[p].equipment)))

ParseAdvancements ==
  \E p \in Parsers :
    Run(p, "advancements", "background", "advancements",
        parse_advancements(lines[p], data[p].advancements))

ParseBackground ==
  \E p \in Parsers :
    Run(p, "background", "notes", "background",
        Ok(parse_background(lines[p], data[p].background)))

ParseNotes ==
  \E p \in Parsers :
    Run(p, "notes", "done", "notes", Ok(parse_notes(lines[p], data[p].notes)))

Next ==
  \/ ParseHeader
  \/ ParseAttributes
  \/ ParseSpecialAbilities
  \/ ParseSkills
  \/ ParseAttacks
  \/ ParseCyphers
  \/ ParseEquipment
  \/ ParseAdvancements
  \/ ParseBackground
  \/ ParseNotes

\* main() has not been called
NoBatch == [files |-> <<>>, input |-> "none", i |-> 0, pc |-> "idle", out |-> <<>>]

\* no entity loop is under way
NoLoop == [kind |-> "none", content |-> <<>>, i |-> 0, out |-> <<>>, cur |-> <<>>, pc |-> "idle"]

-----------------------------------------------------------------------------
(* main() of src/main.py. batch.files is text_files; a file is its name,   *)
(* its content, what parse() does on that content (parsed) and the step at  *)
(* which the environment fails on it ("read": open() or f.read() raises,   *)
(* "generate": the PDF generation raises, "none"). batch.i is the number   *)
(* of files the for loop has taken, batch.out the messages printed,        *)
(* batch.pc the place of the run.                                          *)

\* print(...): the message is added to what has been printed
Printed(msg, name) == Append(batch.out, [msg |-> msg, name |-> name])

\* the file the loop is at
CurrentFile == batch.files[batch.i]

\* lines 66-81: the input path is resolved; an unsupported path ends the run
\* with sys.exit(1), an empty list with a return
Resolve ==
  /\ batch.pc = "resolve"
  /\ batch' =
       IF batch.input = "missing"
       THEN [batch EXCEPT !.pc = "exited", !.out = Printed("Input not found", <<>>)]
       ELSE IF batch.files = <<>>
       THEN [batch EXCEPT !.pc = "returned", !.out = Printed("No files matched", <<>>)]
       ELSE [batch EXCEPT !.pc = "for", !.out = Printed("Found", <<>>)]
  /\ UNCHANGED <<text, lines, data, pc, loop>>

\* lines 83-84: the for loop takes the next file
NextFile ==
  /\ batch.pc = "for"
  /\ batch.i < Len(batch.files)
  /\ batch' = [batch EXCEPT !.i = @ + 1, !.pc = "read",
                            !.out = Printed("Processing", batch.files[batch.i + 1].name)]
  /\ UNCHANGED <<text, lines, data, pc, loop>>

\* lines 88-89: the file is read
ReadFile ==
  /\ batch.pc = "read"
  /\ batch' = [batch EXCEPT !.pc = IF CurrentFile.fault = "read" THEN "except" ELSE "parse"]
  /\ UNCHANGED <<text, lines, data, pc, loop>>

\* lines 92-93: CharacterSheetParser(content).parse() returns or raises, as the
\* content of the file decides (parsed)
ParseFile ==
  /\ batch.pc = "parse"
  /\ batch' = [batch EXCEPT !.pc = IF CurrentFile.parsed.ok THEN "generate" ELSE "except"]
  /\ UNCHANGED <<text, lines, data, pc, loop>>

\* lines 96-133: the PDF is generated (with the debug assets when asked for)
GenerateFile ==
  /\ batch.pc = "generate"
  /\ batch' =
       IF CurrentFile.fault = "generate" THEN [batch EXCEPT !.pc = "except"]
       ELSE [batch EXCEPT !.pc = "for", !.out = Printed("Generated", CurrentFile.name)]
  /\ UNCHANGED <<text, lines, data, pc, loop>>

\* the exception is not caught: it leaves main()
HandleError_abort ==
  /\ batch.pc = "except"
  /\ batch' = [batch EXCEPT !.pc = "raised"]
  /\ UNCHANGED <<text, lines, data, pc, loop>>

\* lines 135-139: except Exception
HandleError ==
  /\ batch.pc = "except"
  /\ batch' = [batch EXCEPT !.pc = "for", !.out = Printed("Error processing", CurrentFile.name)]
  /\ UNCHANGED <<text, lines, data, pc, loop>>

\* line 141: the loop is over
Complete ==
  /\ batch.pc = "for"
  /\ batch.i = Len(batch.files)
  /\ batch' = [batch EXCEPT !.pc = "returned", !.out = Printed("Conversion complete!", <<>>)]
  /\ UNCHANGED <<text, lines, data, pc, loop>>

NextBatch ==
  \/ Resolve
  \/ NextFile
  \/ ReadFile
  \/ ParseFile
  \/ GenerateFile
  \/ HandleError
  \/ Complete

-----------------------------------------------------------------------------
(* The line loop of an entity extractor, one line at a time. loop.content  *)
(* is the content of the section, loop.i the position of the line the loop *)
(* is at, loop.out the list in self.data, loop.cur the entity under        *)
(* construction, loop.kind the extractor.                                  *)

\* the loop state of the step operators
LoopState == [out |-> loop.out, cur |-> loop.cur]

\* the loop goes to the next line with the loop state st
Stepped(st) == [loop EXCEPT !.i = @ + 1, !.out = st.out, !.cur = st.cur]

\* the for loop of the extractor kind is at a line
AtLine(kind) ==
  loop.kind = kind /\ loop.pc = "for" /\ loop.i <= Len(loop.content)

\* lines 272-279
AbilityLine ==
  /\ AtLine("special_abilities")
  /\ loop' = Stepped(AbilityStep(LoopState, loop.content[loop.i]))
  /\ UNCHANGED <<text, lines, data, pc, batch>>

\* lines 289-305
SkillLine ==
  /\ AtLine("skills")
  /\ loop' = Stepped(SkillStep(LoopState, loop.content[loop.i]))
  /\ UNCHANGED <<text, lines, data, pc, batch>>

\* lines 315-326
AttackLine ==
  /\ AtLine("attacks")
  /\ loop' = Stepped(AttackStep(LoopState, loop.content[loop.i]))
  /\ UNCHANGED <<text, lines, data, pc, batch>>

\* lines 336-351; when int() raises on the level the open cypher has been
\* appended and the exception leaves the loop
CypherLine ==
  /\ AtLine("cyphers")
  /\ loop' =
       IF CypherRaises(loop.content[loop.i])
       THEN [loop EXCEPT !.out = loop.out \o loop.cur, !.pc = "raised"]
       ELSE Stepped(CypherStep(LoopState, loop.content[loop.i]))
  /\ UNCHANGED <<text, lines, data, pc, batch>>

\* the append after the loop (lines 281-282, 307-308, 328-329, 353-354)
LoopEnd ==
  /\ loop.pc = "for"
  /\ loop.i > Len(loop.content)
  /\ loop' = [loop EXCEPT !.out = FlushLast(LoopState), !.cur = <<>>, !.pc = "done"]
  /\ UNCHANGED <<text, lines, data, pc, batch>>

NextFold ==
  \/ AbilityLine
  \/ SkillLine
  \/ AttackLine
  \/ CypherLine
  \/ LoopEnd

\* the loop state of _parse_background and _parse_notes: the dict in self.data
\* and current_subsection
SubsectionState == [dict |-> loop.out, cur |-> loop.cur]

\* lines 382-393 and 400-409: the loop body on the line the loop is at
SubsectionLine ==
  /\ loop.kind \in {"background", "notes"} /\ loop.pc = "for"
  /\ loop.i <= Len(loop.content)
  /\ loop' = [loop EXCEPT !.i = @ + 1,
                          !.out = SubsectionStep(SubsectionState, loop.content[loop.i]).dict,
                          !.cur = SubsectionStep(SubsectionState, loop.content[loop.i]).cur]
  /\ UNCHANGED <<text, lines, data, pc, batch>>

\* the loop is over: nothing is appended after it
SubsectionEnd ==
  /\ loop.kind \in {"background", "notes"} /\ loop.pc = "for"
  /\ loop.i > Len(loop.content)
  /\ loop' = [loop EXCEPT !.pc = "done"]
  /\ UNCHANGED <<text, lines, data, pc, batch>>

NextSubsectionFold ==
  \/ SubsectionLine
  \/ SubsectionEnd

\* _looks_like_subsection_header is called on the line loop.content[1] and
\* returns: loop.out holds the value returned
CallHeuristic ==
  /\ loop.kind = "heuristic" /\ loop.pc = "call"
  /\ loop' = [loop EXCEPT !.out = <<looks_like_subsection_header(loop.content[1])>>,
                          !.pc = "returned"]
  /\ UNCHANGED <<text, lines, data, pc, batch>>

NextHeuristic == CallHeuristic

-----------------------------------------------------------------------------
(* The ten extractors called one by one in any order on a fresh instance.  *)
(* loop.out is the set of the fields whose extractor has run; pc[p] is     *)
(* "any" while extractors are left to run.                                 *)

ExtractorFields == DOMAIN NewData

\* the extractor of the field f on the lines ls and the record d: its field
\* after it, with ok false when it raises
Extracted(f, ls, d) ==
  CASE f = "header" -> parse_header(ls, d.header)
    [] f = "attributes" -> parse_attributes(ls, d.attributes)
    [] f = "special_abilities" -> Ok(parse_special_abilities(ls, d.special_abilities))
    [] f = "skills" -> Ok(parse_skills(ls, d.skills))
    [] f = "attacks" -> Ok(parse_attacks(ls, d.attacks))
    [] f = "cyphers" -> parse_cyphers(ls, d.cyphers)
    [] f = "equipment" -> Ok(parse_equipment(ls, d.equipment))
    [] f = "advancements" -> parse_advancements(ls, d.advancements)
    [] f = "background" -> Ok(parse_background(ls, d.background))
    [] OTHER -> Ok(parse_notes(ls, d.notes))

\* an extractor starts from a new record and writes its field
Written_reset(d, f, v) == [NewData EXCEPT ![f] = v]

\* an extractor writes self.data[f]
Written(d, f, v) == [d EXCEPT ![f] = v]

\* one of the extractors that has not run yet is called on instance p
RunExtractor ==
  \E p \in Parsers : \E f \in ExtractorFields \ loop.out :
    /\ loop.kind = "extractors" /\ pc[p] = "any"
    /\ data' = Store(p, Written(data[p], f, Extracted(f, lines[p], data[p]).value))
    /\ pc' = [pc EXCEPT ![p] =
                IF ~Extracted(f, lines[p], data[p]).ok THEN "raised"
                ELSE IF loop.out \cup {f} = ExtractorFields THEN "done"
                ELSE "any"]
    /\ loop' = [loop EXCEPT !.out = @ \cup {f}]
    /\ UNCHANGED <<text, lines, batch>>

NextAnyOrder == RunExtractor

\* parse() has returned self.data on instance p and is called on p again: the
\* record is not built anew (it is built in __init__ only). loop.out keeps the
\* record as the first call returned it, loop.i counts the calls.
ParseAgain ==
  \E p \in Parsers :
    /\ loop.kind = "reparse" /\ loop.i = 1
    /\ pc[p] = "done"
    /\ pc' = [pc EXCEPT ![p] = "header"]
    /\ loop' = [loop EXCEPT !.i = 2, !.out = <<data[p]>>]
    /\ UNCHANGED <<text, lines, data, batch>>

NextReparse ==
  \/ ParseHeader
  \/ ParseAttributes
  \/ ParseSpecialAbilities
  \/ ParseSkills
  \/ ParseAttacks
  \/ ParseCyphers
  \/ ParseEquipment
  \/ ParseAdvancements
  \/ ParseBackground
  \/ ParseNotes
  \/ ParseAgain

\* n parser instances constructed from the text t: the state after __init__
Constructed(t, n) ==
  /\ text = t
  /\ lines = [p \in 1..n |-> split(t)]
  /\ data = [p \in 1..n |-> NewData]
  /\ pc = [p \in 1..n |-> "header"]
  /\ batch = NoBatch
  /\ loop = NoLoop

-----------------------------------------------------------------------------
(* Inputs                                                                  *)

\* the sequences over S of length at most n
SeqsUpTo(S, n) == UNION {[1..k -> S] : k \in 0..n}

\* the text whose lines are ls
TextOf(ls) == join(<<"\n">>, ls)

MaxLines == 3

\* lines of a sheet in any arrangement: section headers, body lines, a rule,
\* a blank line, an attribute line and a header sentence
SheetLines ==
  {<<"S","k","i","l","l","s">>, <<"a","t","t","a","c","k","s">>, <<"E","q","u","i","p","m","e","n","t">>, <<"C","l","i","m","b","i","n","g"," ","(","A","d","e","p","t",")">>, <<"S","w","o","r","d">>, <<"-","-","-">>, <<>>,
   <<"A","r","m","o","r",":"," ","1">>, <<"B","o"," ","i","s"," ","a"," ","J","a","c","k">>}

SheetTexts == {TextOf(ls) : ls \in SeqsUpTo(SheetLines, MaxLines)}

MaxSectionLines == 3

\* body lines of the entity sections: names, indented and unindented
\* descriptions, a skill line, a cypher line, a line that only resembles a skill
EntityLines ==
  {<<"S","w","o","r","d">>, <<"\t","s","l","a","s","h"," ","h","a","r","d">>, <<" "," ","P","a","r","r","y"," ","w","e","l","l">>, <<"C","l","i","m","b","i","n","g"," ","(","A","d","e","p","t",")">>,
   <<"O","r","b"," ","(","L","e","v","e","l"," ","4",","," ","A","m","m","o",")">>, <<"A","b"," ","(","T",")"," ","x">>, <<"2","d","6"," ","d","a","m","a","g","e",".">>}

\* body lines of the Equipment and Advancements sections
ListLines ==
  {<<"-"," ","R","o","p","e"," ","(","5","0","f","t",")">>, <<"M","o","n","e","y",":"," ","1","2"," ","s","h","i","n","s">>, <<"-"," ","M","o","n","e","y",":"," ","3">>, <<" "," ","T","o","r","c","h">>,
   <<"T","i","e","r",":"," ","2">>, <<"[","x","]"," ","S","k","i","l","l">>, <<" "," ","["," ","]"," ","T","i","e","r",":"," ","3">>}

EntitySections == {SpecialAbilities, Skills, Attacks, Cyphers}

ListSections == {Equipment, Advancements}

\* one section: its header line, then lines of its kind
SectionTexts ==
  {TextOf(<<h>> \o ls) : h \in EntitySections, ls \in SeqsUpTo(EntityLines, MaxSectionLines)}
  \cup
  {TextOf(<<h>> \o ls) : h \in ListSections, ls \in SeqsUpTo(ListLines, MaxSectionLines)}

MaxHeaderTokens == 4

HeaderTokens == {<<"B","o">>, <<"i","s">>, <<"a">>, <<"a","n">>, <<"i","n">>, <<"w","h","o">>}

\* header sentences of the shape  N is a|an D1 [who|with D2 [who|with D3]] [in a|an W]
\* as records: d the descriptors, seps the separators between them, world either
\* empty or the pair of the "in a" keyword and W
FormNames == {<<"Z","a","m","i","r","a">>, <<"A","l"," ","i","s">>}

FormIsA == {<<"i","s"," ","a">>, <<"I","S"," ","a","n">>}

FormFirst == {<<"W","e","i","r","d"," ","E","x","p","l","o","r","e","r">>, <<"i","n">>}

FormSecond == {<<"C","r","a","f","t","s"," ","I","l","l","u","s","i","o","n","s">>, <<"i","n">>}

FormThird == {<<"W","e","i","r","d"," ","E","x","p","l","o","r","e","r">>}

FormSeps == {<<"w","h","o">>, <<"W","i","t","h">>}

FormInA == {<<"i","n"," ","a">>, <<"I","n"," ","A","N">>}

FormWorlds == {<<"H","i","s","t","o","r","i","c","a","l"," ","w","o","r","l","d">>, <<"S","t","a","n","d","a","r","d">>}

FormDescriptors ==
  {<<<<d1>>, <<>>>> : d1 \in FormFirst}
  \cup {<<<<d1, d2>>, <<s1>>>> : d1 \in FormFirst, d2 \in FormSecond, s1 \in FormSeps}
  \cup {<<<<d1, d2, d3>>, <<s1, s2>>>> :
          d1 \in FormFirst, d2 \in FormSecond, d3 \in FormThird,
          s1 \in FormSeps, s2 \in FormSeps}

Forms ==
  {[n |-> n, isa |-> v, d |-> ds[1], seps |-> ds[2], world |-> w] :
     n \in FormNames, v \in FormIsA, ds \in FormDescriptors,
     w \in {<<>>} \cup {<<k, x>> : k \in FormInA, x \in FormWorlds}}

RECURSIVE FormTail(_, _)
\* the descriptors from the k-th on, each after its separator
FormTail(f, k) ==
  IF k > Len(f.d) THEN <<>>
  ELSE <<" ">> \o f.seps[k - 1] \o <<" ">> \o f.d[k] \o FormTail(f, k + 1)

\* the sentence of the form f, its pieces joined by single spaces
FormText(f) ==
  f.n \o <<" ">> \o f.isa \o <<" ">> \o f.d[1] \o FormTail(f, 2)
  \o (IF f.world = <<>> THEN <<>> ELSE <<" ">> \o f.world[1] \o <<" ">> \o f.world[2])

HeaderTexts ==
  {join(<<" ">>, ws) : ws \in SeqsUpTo(HeaderTokens, MaxHeaderTokens)}
  \cup {FormText(f) : f \in Forms}

\* a number one digit longer than int() converts
LongDigits == [i \in 1..(MaxStrDigits + 1) |-> "9"]

LongNumber == ArmorPrefix \o <<" ">> \o LongDigits

\* a cypher after another, with a level that int() does not convert
LongLevel ==
  TextOf(<<Cyphers, <<"O","r","b"," ","(","L","e","v","e","l"," ","3",","," ","O","c","c","u","l","t","i","c",")">>,
           <<"W","a","n","d"," ","(","L","e","v","e","l"," ">> \o LongDigits \o <<","," ","A","n","o","e","t","i","c",")">>>>)

\* an advancement choice and then a tier that int() does not convert
LongTier ==
  TextOf(<<Advancements, <<"[","x","]"," ","S","k","i","l","l">>, TierLabel \o <<" ">> \o LongDigits>>)

LongTexts == {LongNumber, LongLevel, LongTier}

Init == \E t \in SheetTexts \cup LongTexts : Constructed(t, 1)

Spec == Init /\ [][Next]_vars

InitSections == \E t \in SectionTexts : Constructed(t, 1)

SpecSections == InitSections /\ [][Next]_vars

MaxAttrLines == 3

AttrLines ==
  {<<"M","i","g","h","t",":"," ","P","o","o","l",":"," ","1","0"," ","E","d","g","e",":"," ","1"," ","D","e","f","e","n","s","e",":"," ","F","a","i","r">>, <<"M","i","g","h","t",":"," ","P","o","o","l",":"," ","x">>,
   <<"S","p","e","e","d",":"," ","P","o","o","l",":"," ","1","2"," ","E","d","g","e",":"," ","0"," ","D","e","f","e","n","s","e",":"," ","W","e","a","k">>,
   <<"I","n","t","e","l","l","e","c","t",":"," ","P","o","o","l",":"," ","9"," ","E","d","g","e",":"," ","2">>, <<"A","r","m","o","r",":"," ","2">>, <<"A","r","m","o","r",":"," ","n","o","n","e">>, <<" ","A","r","m","o","r",":"," ","7">>,
   <<"E","f","f","o","r","t",":","3">>, <<"I","n","i","t","i","a","t","i","v","e",":"," ","F","a","s","t">>, <<"E","x","p","e","r","i","e","n","c","e"," ","P","o","i","n","t","s",":"," ","4">>,
   <<"R","e","c","o","v","e","r","y"," ","R","o","l","l",":"," ","1","d","6"," ","+"," ","2">>}

\* lines that begin with the same prefix: two Armor lines and two Might lines
\* that match their patterns with different values, and one of each that does not
RepeatedLines ==
  {<<"A","r","m","o","r",":"," ","2">>, <<"A","r","m","o","r",":"," ","5">>, <<"A","r","m","o","r",":"," ","n","o","n","e">>,
   <<"M","i","g","h","t",":"," ","P","o","o","l",":"," ","1","0"," ","E","d","g","e",":"," ","1"," ","D","e","f","e","n","s","e",":"," ","F","a","i","r">>,
   <<"M","i","g","h","t",":"," ","P","o","o","l",":"," ","7"," ","E","d","g","e",":"," ","0"," ","D","e","f","e","n","s","e",":"," ","W","e","a","k">>, <<"M","i","g","h","t",":"," ","P","o","o","l",":"," ","x">>}

AttrTexts ==
  {TextOf(ls) : ls \in SeqsUpTo(AttrLines, MaxAttrLines)}
  \cup {TextOf(ls) : ls \in SeqsUpTo(RepeatedLines, MaxAttrLines)}
  \cup {LongNumber, TextOf(<<<<"E","f","f","o","r","t",":"," ","3">>, LongNumber>>), TextOf(<<LongNumber, <<"E","f","f","o","r","t",":"," ","3">>>>),
        TextOf(<<<<"A","r","m","o","r",":"," ","2">>, LongNumber>>)}

InitAttr == \E t \in AttrTexts : Constructed(t, 1)

SpecAttr == InitAttr /\ [][Next]_vars

MaxSections == 2

\* what stands above the first section: a header sentence and a blank line, a
\* header sentence alone, a rule
SheetTops == {<<<<"B","o"," ","i","s"," ","a"," ","J","a","c","k">>, <<>>>>, <<<<"B","o"," ","i","s"," ","a"," ","J","a","c","k">>>>, <<<<"-","-","-">>>>}

SheetSectionNames == {<<"S","k","i","l","l","s">>, <<"E","q","u","i","p","m","e","n","t">>, <<"N","o","t","e","s">>}

SheetBodies ==
  {<<>>, <<<<"C","l","i","m","b","i","n","g"," ","(","A","d","e","p","t",")">>>>, <<<<"A","r","m","o","r",":"," ","1">>>>, <<<<"S","w","o","r","d">>, <<"\t","s","l","a","s","h"," ","h","a","r","d">>>>}

SheetSections == {<<n>> \o b : n \in SheetSectionNames, b \in SheetBodies}

RECURSIVE Flatten(_)
Flatten(parts) == IF parts = <<>> THEN <<>> ELSE Head(parts) \o Flatten(Tail(parts))

\* sheets of a top and up to MaxSections sections in any order, repeats included
SectionedTexts ==
  {TextOf(top \o Flatten(secs)) :
     top \in SheetTops, secs \in SeqsUpTo(SheetSections, MaxSections)}

InitSheet == \E t \in SectionedTexts : Constructed(t, 1)

SpecSheet == InitSheet /\ [][Next]_vars

MaxPairLines == 2

\* two instances built from one text
PairTexts ==
  {TextOf(ls) : ls \in SeqsUpTo(SheetLines, MaxPairLines)} \cup LongTexts

InitPair == \E t \in PairTexts : Constructed(t, 2)

SpecPair == InitPair /\ [][Next]_vars

MaxCypherLines == 3

\* cypher lines "<name> (Level <integer>, <type>)" as records: the name, the
\* digits of the level with the number they write, and the type
CypherForms ==
  {[kind |-> "form", name |-> <<"D","e","t","o","n","a","t","i","o","n">>, digits |-> <<"4">>, level |-> 4, type |-> <<"A","m","m","o">>],
   [kind |-> "form", name |-> <<"O","r","b"," ","o","f"," ","L","i","g","h","t">>, digits |-> <<"0","1","0">>, level |-> 10, type |-> <<"A","n","o","e","t","i","c"," ","(","r","a","r","e",")">>],
   [kind |-> "form", name |-> <<"X","-","R","a","y"," ","V","i","e","w","e","r">>, digits |-> <<"5">>, level |-> 5, type |-> <<"O","c","c","u","l","t","i","c">>]}

\* description lines: the text of the line after its indentation
CypherNotes ==
  {[kind |-> "note", indent |-> <<" "," ">>, body |-> <<"E","x","p","l","o","d","e","s"," ","o","n"," ","i","m","p","a","c","t",".">>],
   [kind |-> "note", indent |-> <<"\t">>, body |-> <<"R","a","n","g","e",":"," ","l","o","n","g">>]}

CypherItemLine(it) ==
  IF it.kind = "form"
  THEN it.name \o <<" ","(","L","e","v","e","l"," ">> \o it.digits \o <<","," ">> \o it.type \o <<")">>
  ELSE it.indent \o it.body

CypherItemSeqs == SeqsUpTo(CypherForms \cup CypherNotes, MaxCypherLines)

\* a Cyphers section whose lines are those of the items
CypherText(items) ==
  TextOf(<<Cyphers>> \o [k \in 1..Len(items) |-> CypherItemLine(items[k])])

CypherTexts == {CypherText(items) : items \in CypherItemSeqs}

InitCyphers == \E t \in CypherTexts : Constructed(t, 1)

SpecCyphers == InitCyphers /\ [][Next]_vars

MaxSkillLines == 3

\* skill lines "<name> (<level>)" as records of the name and the level token
SkillForms ==
  {[kind |-> "form", name |-> n, level |-> l] :
     n \in {<<"C","l","i","m","b","i","n","g">>, <<"S","p","e","e","d"," ","d","e","f","e","n","s","e">>, <<"X">>}, l \in {<<"A","d","e","p","t">>, <<"T","r","a","i","n","e","d">>}}

SkillNotes == {[kind |-> "note", indent |-> <<" "," ">>, body |-> <<"U","s","e","s"," ","r","o","p","e","s",".">>]}

SkillItemLine(it) ==
  IF it.kind = "form" THEN it.name \o <<" ","(">> \o it.level \o <<")">>
  ELSE it.indent \o it.body

SkillItemSeqs == SeqsUpTo(SkillForms \cup SkillNotes, MaxSkillLines)

\* a Skills section whose lines are those of the items
SkillText(items) ==
  TextOf(<<Skills>> \o [k \in 1..Len(items) |-> SkillItemLine(items[k])])

SkillTexts == {SkillText(items) : items \in SkillItemSeqs}

InitSkills == \E t \in SkillTexts : Constructed(t, 1)

SpecSkills == InitSkills /\ [][Next]_vars

MaxRuleLines == 3

\* body lines and rule lines: a bare rule, rules with whitespace before or
\* after them, a name, an indented line, a bulleted item, an item behind dashes
RuleLines ==
  {<<"-","-","-">>, <<" "," ","-","-","-">>, <<"-","-","-","-","-"," "," ">>, <<"\t","-","-">>, <<"F","l","i","g","h","t">>, <<" "," ","S","o","a","r","s"," ","h","i","g","h">>, <<"-"," ","R","o","p","e">>,
   <<"-","-","-"," ","R","o","p","e">>}

\* one section of any of the eight names over lines and rules
RuleTexts ==
  {TextOf(<<section_order[k]>> \o ls) :
     k \in DOMAIN section_order, ls \in SeqsUpTo(RuleLines, MaxRuleLines)}

InitRules == \E t \in RuleTexts : Constructed(t, 1)

SpecRules == InitRules /\ [][Next]_vars

MaxSubsectionLines == 4

\* lines of Background and Notes: two titles, one of them also indented by
\* spaces and by a tab, and two body lines
SubsectionLines ==
  {<<"O","r","i","g","i","n">>, <<"A","l","l","i","e","s">>, <<" "," ","O","r","i","g","i","n">>, <<"\t","O","r","i","g","i","n">>, <<" "," ","B","o","r","n"," ","a","t"," ","s","e","a",".">>, <<"L","o","s","t"," ","a"," ","s","h","i","p",".">>}

SubsectionTexts ==
  {TextOf(<<h>> \o ls) :
     h \in {Background, Notes}, ls \in SeqsUpTo(SubsectionLines, MaxSubsectionLines)}

InitSubsections == \E t \in SubsectionTexts : Constructed(t, 1)

SpecSubsections == InitSubsections /\ [][Next]_vars

MaxFiles == 3

FileNames == <<<<"a",".","t","x","t">>, <<"b",".","t","x","t">>, <<"c",".","t","x","t">>, <<"d",".","t","x","t">>>>

\* a sheet that parses
GoodSheet == TextOf(<<<<"B","o"," ","i","s"," ","a"," ","J","a","c","k">>, <<>>, <<"A","r","m","o","r",":"," ","1">>>>)

\* what a file holds and where the environment fails on it; the sheet with
\* the long number makes parse() raise
FileKinds ==
  {[content |-> c, parsed |-> parse(split(c)), fault |-> f] :
     c \in {GoodSheet}, f \in {"none", "read", "generate"}}
  \cup {[content |-> LongNumber, parsed |-> parse(split(LongNumber)), fault |-> "none"]}

\* the lists of up to n files, named in the order of the list
FileLists(n) ==
  {[k \in 1..Len(ks) |-> [name |-> FileNames[k], content |-> ks[k].content,
                          parsed |-> ks[k].parsed, fault |-> ks[k].fault]] :
     ks \in SeqsUpTo(FileKinds, n)}

\* main() is called on a directory (any list of matches, none included), on a
\* single .txt file, or on a path that is neither
InitBatch ==
  /\ text = <<>> /\ lines = <<>> /\ data = <<>> /\ pc = <<>>
  /\ loop = NoLoop
  /\ \E input \in {"dir", "file", "missing"} :
       \E fs \in FileLists(MaxFiles) :
         /\ input = "file" => Len(fs) = 1
         /\ input = "missing" => fs = <<>>
         /\ batch = [files |-> fs, input |-> input, i |-> 0, pc |-> "resolve", out |-> <<>>]

\* main() runs on: every step it is at is taken
SpecBatch == InitBatch /\ [][NextBatch]_vars /\ WF_vars(NextBatch)

MaxFoldLines == 3

FoldKinds == {"special_abilities", "skills", "attacks", "cyphers"}

\* the content lines of a loop: those of the entity sections and a cypher line
\* with a level that int() does not convert
FoldLines ==
  EntityLines \cup {<<"W","a","n","d"," ","(","L","e","v","e","l"," ">> \o LongDigits \o <<","," ","A","n","o","e","t","i","c",")">>}

\* an extractor is about to loop over the content of its section
InitFold ==
  /\ text = <<>> /\ lines = <<>> /\ data = <<>> /\ pc = <<>>
  /\ batch = NoBatch
  /\ \E kind \in FoldKinds : \E content \in SeqsUpTo(FoldLines, MaxFoldLines) :
       loop = [kind |-> kind, content |-> content, i |-> 1, out |-> <<>>, cur |-> <<>>,
               pc |-> "for"]

SpecFold == InitFold /\ [][NextFold]_vars

MaxSubsectionFoldLines == 4

\* _parse_background or _parse_notes is about to loop over the content of its
\* section
InitSubsectionFold ==
  /\ text = <<>> /\ lines = <<>> /\ data = <<>> /\ pc = <<>>
  /\ batch = NoBatch
  /\ \E kind \in {"background", "notes"} :
       \E content \in SeqsUpTo(SubsectionLines, MaxSubsectionFoldLines) :
         loop = [kind |-> kind, content |-> content, i |-> 1, out |-> <<>>, cur |-> <<>>,
                 pc |-> "for"]

SpecSubsectionFold == InitSubsectionFold /\ [][NextSubsectionFold]_vars

MaxFillerWords == 9

\* first words of a line as records: the word, the word in lower case, whether
\* its first letter is a capital and the others are small (cap), and whether
\* str.title() leaves it as it is (title)
FirstWords ==
  {[w |-> <<"y","o","u">>, low |-> <<"y","o","u">>, cap |-> FALSE, title |-> FALSE],
   [w |-> <<"Y","o","u">>, low |-> <<"y","o","u">>, cap |-> TRUE, title |-> TRUE],
   [w |-> <<"T","h","i","s">>, low |-> <<"t","h","i","s">>, cap |-> TRUE, title |-> TRUE],
   [w |-> <<"t","h","e","y">>, low |-> <<"t","h","e","y">>, cap |-> FALSE, title |-> FALSE],
   [w |-> <<"T","h","e">>, low |-> <<"t","h","e">>, cap |-> TRUE, title |-> TRUE],
   [w |-> <<"A">>, low |-> <<"a">>, cap |-> TRUE, title |-> TRUE],
   [w |-> <<"a","n">>, low |-> <<"a","n">>, cap |-> FALSE, title |-> FALSE],
   [w |-> <<"Y","O","U","R">>, low |-> <<"y","o","u","r">>, cap |-> FALSE, title |-> FALSE],
   [w |-> <<"P","o","s","s","i","b","l","e">>, low |-> <<"p","o","s","s","i","b","l","e">>, cap |-> TRUE, title |-> TRUE],
   [w |-> <<"s","o","m","e","t","i","m","e","s">>, low |-> <<"s","o","m","e","t","i","m","e","s">>, cap |-> FALSE, title |-> FALSE],
   [w |-> <<"D","e","p","e","n","d","i","n","g">>, low |-> <<"d","e","p","e","n","d","i","n","g">>, cap |-> TRUE, title |-> TRUE],
   [w |-> <<"O","l","d">>, low |-> <<"o","l","d">>, cap |-> TRUE, title |-> TRUE],
   [w |-> <<"o","l","d">>, low |-> <<"o","l","d">>, cap |-> FALSE, title |-> FALSE],
   [w |-> <<"T","h","e","s","i","s">>, low |-> <<"t","h","e","s","i","s">>, cap |-> TRUE, title |-> TRUE],
   [w |-> <<"I","t","'","s">>, low |-> <<"i","t","'","s">>, cap |-> TRUE, title |-> FALSE]}

\* the words that follow the first one: a capitalised one, a small one, and a
\* capitalised one of forty letters
FillerWords ==
  {[w |-> <<"M","i","l","l">>, cap |-> TRUE, title |-> TRUE],
   [w |-> <<"m","i","l","l">>, cap |-> FALSE, title |-> FALSE],
   [w |-> <<"A">> \o [i \in 1..39 |-> "a"], cap |-> TRUE, title |-> TRUE]}

\* lines as records: indentation, first word, n times a separator and a filler
\* word, and what ends the line
HeuristicForms ==
  {[indent |-> ind, first |-> fw, n |-> n, sep |-> sep, filler |-> fl, end |-> e] :
     ind \in {<<>>, <<" "," ">>}, fw \in FirstWords, n \in 0..MaxFillerWords,
     sep \in {<<" ">>, <<"\t">>}, fl \in FillerWords,
     e \in {<<>>, <<".">>, <<"!">>, <<"?">>, <<":">>, <<",">>}}

RECURSIVE Fillers(_, _)
Fillers(f, k) == IF k = 0 THEN <<>> ELSE f.sep \o f.filler.w \o Fillers(f, k - 1)

\* the line of the form f
HeuristicLine(f) == f.indent \o f.first.w \o Fillers(f, f.n) \o f.end

\* the heuristic is about to be called on a line
InitHeuristic ==
  /\ text = <<>> /\ lines = <<>> /\ data = <<>> /\ pc = <<>>
  /\ batch = NoBatch
  /\ \E f \in HeuristicForms :
       loop = [kind |-> "heuristic", form |-> f, content |-> <<HeuristicLine(f)>>,
               i |-> 1, out |-> <<>>, cur |-> <<>>, pc |-> "call"]

SpecHeuristic == InitHeuristic /\ [][NextHeuristic]_vars

\* a sheet with every field in it
FullSheet ==
  TextOf(<<<<"B","o"," ","i","s"," ","a"," ","J","a","c","k">>, <<>>, <<"A","r","m","o","r",":"," ","1">>, SpecialAbilities, <<"F","l","i","g","h","t">>, Skills,
           <<"C","l","i","m","b","i","n","g"," ","(","A","d","e","p","t",")">>, Attacks, <<"S","w","o","r","d">>, Cyphers, <<"O","r","b"," ","(","L","e","v","e","l"," ","4",","," ","A","m","m","o",")">>,
           Equipment, <<"-"," ","R","o","p","e">>, Advancements, <<"T","i","e","r",":"," ","2">>, <<"[","x","]"," ","S","k","i","l","l">>, Background,
           <<"O","r","i","g","i","n">>, <<" "," ","B","o","r","n"," ","a","t"," ","s","e","a",".">>, Notes, <<"A","l","l","i","e","s">>, <<" "," ","N","o","n","e",".">>>>)

\* a sheet whose sections stand out of the canonical order, without a header
MixedSheet ==
  TextOf(<<Notes, <<"A","l","l","i","e","s">>, Skills, <<"C","l","i","m","b","i","n","g"," ","(","A","d","e","p","t",")">>, <<"A","r","m","o","r",":"," ","2">>, Equipment,
           <<"R","o","p","e">>, Attacks, <<"S","w","o","r","d">>>>)

\* the sheets on which the extractors are called in any order: the last one
\* makes the Advancements extractor raise
AnyOrderTexts ==
  {FullSheet, MixedSheet,
   TextOf(<<<<>>, Skills, <<"C","l","i","m","b","i","n","g"," ","(","A","d","e","p","t",")">>, Advancements, <<"[","x","]"," ","S","k","i","l","l">>,
            TierLabel \o <<" ">> \o LongDigits>>)}

InitAnyOrder ==
  /\ \E t \in AnyOrderTexts :
       /\ text = t
       /\ lines = [p \in 1..1 |-> split(t)]
  /\ data = [p \in 1..1 |-> NewData]
  /\ pc = [p \in 1..1 |-> "any"]
  /\ batch = NoBatch
  /\ loop = [kind |-> "extractors", content |-> <<>>, i |-> 0, out |-> {}, cur |-> <<>>,
             pc |-> "idle"]

SpecAnyOrder == InitAnyOrder /\ [][NextAnyOrder]_vars

MaxBreaks == 2

\* the header sentences that are wrapped
WrapForms ==
  {f \in Forms :
     /\ f.isa = <<"i","s"," ","a">> /\ Len(f.d) <= 2
     /\ \A k \in 1..Len(f.seps) : f.seps[k] = <<"w","h","o">>
     /\ f.d[1] = <<"W","e","i","r","d"," ","E","x","p","l","o","r","e","r">>
     /\ f.world = <<>> \/ f.world = <<<<"i","n"," ","a">>, <<"H","i","s","t","o","r","i","c","a","l"," ","w","o","r","l","d">>>>}

\* what follows the sentence: nothing, or a line that ends the header lines (a
\* blank line, a line of spaces, a rule, a rule inside spaces) or none (direct),
\* and then another header sentence
WrapTails ==
  {[kind |-> "end", stop |-> <<>>]}
  \cup {[kind |-> "stop", stop |-> s] : s \in {<<>>, <<" "," ">>, <<"-","-","-">>, <<" ","-","-"," ">>}}
  \cup {[kind |-> "direct", stop |-> <<>>]}

WrapRest == <<"A","l"," ","i","s"," ","a"," ","N","a","n","o"," ","i","n"," ","a"," ","C","o","l","d"," ","w","o","r","l","d">>

\* where a sentence may be broken: at up to MaxBreaks of its spaces
BreakSets(s) ==
  {b \in SUBSET {i \in 1..Len(s) : s[i] = " "} : Cardinality(b) <= MaxBreaks}

RECURSIVE WrapFrom(_, _, _, _)
\* the sentence s from position i on, each space in breaks replaced by a line
\* break and the indentation of the continuation line
WrapFrom(s, i, breaks, indent) ==
  IF i > Len(s) THEN <<>>
  ELSE (IF i \in breaks THEN <<"\n">> \o indent ELSE <<s[i]>>)
       \o WrapFrom(s, i + 1, breaks, indent)

\* the text of the wrapped sentence and its tail
WrapText(s, breaks, indent, tail) ==
  WrapFrom(s, 1, breaks, indent)
  \o (CASE tail.kind = "end" -> <<>>
        [] tail.kind = "stop" -> <<"\n">> \o tail.stop \o <<"\n">> \o WrapRest
        [] OTHER -> <<"\n">> \o WrapRest)

\* the same header on one line: the sentence, joined by a single space with
\* the line that follows it directly, if any
WrapOneLine(s, tail) ==
  IF tail.kind = "direct" THEN s \o <<" ">> \o WrapRest ELSE s

\* a parser is constructed from a wrapped header sentence; loop.content holds
\* the same header on one line
InitWrapped ==
  /\ \E f \in WrapForms : \E tail \in WrapTails : \E indent \in {<<>>, <<" "," ">>} :
       \E breaks \in BreakSets(FormText(f)) :
         /\ text = WrapText(FormText(f), breaks, indent, tail)
         /\ lines = [p \in 1..1 |-> split(WrapText(FormText(f), breaks, indent, tail))]
         /\ loop = [kind |-> "wrapped", form |-> f,
                    content |-> <<WrapOneLine(FormText(f), tail)>>,
                    i |-> Cardinality(breaks), out |-> <<>>, cur |-> <<>>, pc |-> "idle"]
  /\ data = [p \in 1..1 |-> NewData]
  /\ pc = [p \in 1..1 |-> "header"]
  /\ batch = NoBatch

SpecWrapped == InitWrapped /\ [][Next]_vars

\* one instance, on which parse() is called twice
InitReparse ==
  /\ \E t \in SheetTexts :
       /\ text = t
       /\ lines = [p \in 1..1 |-> split(t)]
  /\ data = [p \in 1..1 |-> NewData]
  /\ pc = [p \in 1..1 |-> "header"]
  /\ batch = NoBatch
  /\ loop = [kind |-> "reparse", content |-> <<>>, i |-> 1, out |-> <<>>, cur |-> <<>>,
             pc |-> "idle"]

SpecReparse == InitReparse /\ [][NextReparse]_vars

InitHeader == \E t \in HeaderTexts : Constructed(t, 1)

SpecHeader == InitHeader /\ [][Next]_vars

-----------------------------------------------------------------------------
(* Properties                                                              *)

\* the header lines hold text that the header pattern does not match
HeaderMismatch(ls) ==
  header_text(ls) # <<>> /\ ~HeaderMatch(header_text(ls)).matched

\* C1: parse() never raises, whatever the lines are, and when the header
\* pattern does not match, the nine other extractors still run: the record
\* returned holds an empty header and what each of them extracts.
C1_NeverRaises ==
  \A p \in Parsers :
    /\ pc[p] # "raised"
    /\ (pc[p] = "done" /\ HeaderMismatch(lines[p])) =>
         /\ data[p].header = EmptyDict
         /\ data[p].attributes = parse_attributes(lines[p], EmptyDict).value
         /\ data[p].special_abilities = parse_special_abilities(lines[p], <<>>)
         /\ data[p].skills = parse_skills(lines[p], <<>>)
         /\ data[p].attacks = parse_attacks(lines[p], <<>>)
         /\ data[p].cyphers = parse_cyphers(lines[p], <<>>).value
         /\ data[p].equipment = parse_equipment(lines[p], <<>>)
         /\ data[p].advancements = parse_advancements(lines[p], EmptyDict).value
         /\ data[p].background = parse_background(lines[p], <<>>)
         /\ data[p].notes = parse_notes(lines[p], <<>>)

\* the number of lines of content that satisfy Start
CountLines(content, Start(_)) ==
  Cardinality({i \in 1..Len(content) : Start(content[i])})

SkillStart(line) == SkillMatch(strip(line)).matched

CypherStart(line) == CypherMatch(strip(line)).matched

\* C2: in each entity section the output list holds exactly as many entries as
\* the section's content holds entity-start lines, whatever follows each of them.
C2_FlushExactlyOnce ==
  \A p \in Parsers :
    pc[p] = "done" =>
      /\ Len(data[p].special_abilities)
           = CountLines(get_section_content(lines[p], SpecialAbilities), AbilityStart)
      /\ Len(data[p].skills)
           = CountLines(get_section_content(lines[p], Skills), SkillStart)
      /\ Len(data[p].attacks)
           = CountLines(get_section_content(lines[p], Attacks), AttackStart)
      /\ Len(data[p].cyphers)
           = CountLines(get_section_content(lines[p], Cyphers), CypherStart)

\* two skills were opened, the first with a description line, and both are out
C2_Witness ==
  \E p \in Parsers :
    /\ pc[p] = "done" /\ Len(data[p].skills) = 2
    /\ Len(data[p].skills[1].description) = 1
    /\ Len(get_section_content(lines[p], Skills)) = 3

\* the k-th smallest element of the set of numbers S
Nth(S, k) == CHOOSE i \in S : Cardinality({j \in S : j < i}) = k - 1

\* the stripped lines of content, in their order, whose index is in idx
Picked(content, idx) ==
  [m \in 1..Cardinality(idx) |-> strip(content[Nth(idx, m)])]

\* out lists, in the order of the input, one entity per start line of content,
\* named by that line and described by the kept lines up to the next start line
InSourceOrder(out, content, Start(_), Name(_), Kept(_)) ==
  LET starts == {i \in 1..Len(content) : Start(content[i])}
      n == Cardinality(starts)
  IN /\ Len(out) = n
     /\ \A k \in 1..n :
          LET i == Nth(starts, k)
              nxt == IF k < n THEN Nth(starts, k + 1) ELSE Len(content) + 1
          IN /\ out[k].name = Name(content[i])
             /\ out[k].description
                  = Picked(content, {j \in (i + 1)..(nxt - 1) : Kept(content[j])})

StrippedLine(line) == strip(line)

SkillName(line) == SkillMatch(strip(line)).g1

CypherName(line) == strip(CypherMatch(strip(line)).g1)

AnyLine(line) == TRUE

NotSkillLike(line) == ~LooksLikeSkill(strip(line))

\* the equipment entry of a line: the line without its bullet
EquipmentItem(line) ==
  IF startswith(strip(line), <<"-">>) THEN strip(Tail(strip(line))) ELSE strip(line)

IsEquipmentItem(line) ==
  startswith(strip(line), <<"-">>) \/ ~startswith(strip(line), MoneyPrefix)

IsChoice(line) == ~Contains(line, TierLabel) /\ startswith(strip(line), <<"[">>)

\* C3: every output sequence is in source order: the entities of the four
\* entity sections follow the order of their start lines, each description holds
\* its lines in input order, and equipment and advancements.choices list their
\* lines in input order.
C3_SourceOrder ==
  \A p \in Parsers :
    pc[p] = "done" =>
      LET ls == lines[p]
          eq == get_section_content(ls, Equipment)
          ad == get_section_content(ls, Advancements)
          items == {i \in 1..Len(eq) : IsEquipmentItem(eq[i])}
          chosen == {i \in 1..Len(ad) : IsChoice(ad[i])}
      IN /\ InSourceOrder(data[p].special_abilities,
                          get_section_content(ls, SpecialAbilities),
                          AbilityStart, StrippedLine, AnyLine)
         /\ InSourceOrder(data[p].skills, get_section_content(ls, Skills),
                          SkillStart, SkillName, NotSkillLike)
         /\ InSourceOrder(data[p].attacks, get_section_content(ls, Attacks),
                          AttackStart, StrippedLine, AnyLine)
         /\ InSourceOrder(data[p].cyphers, get_section_content(ls, Cyphers),
                          CypherStart, CypherName, AnyLine)
         /\ data[p].equipment
              = [m \in 1..Cardinality(items) |-> EquipmentItem(eq[Nth(items, m)])]
         /\ (IF Has(data[p].advancements, "choices")
             THEN data[p].advancements["choices"] ELSE <<>>)
              = Picked(ad, chosen)

\* two abilities with different names, the first with a description line
C3_Witness ==
  \E p \in Parsers :
    /\ pc[p] = "done" /\ Len(data[p].special_abilities) = 2
    /\ data[p].special_abilities[1].name # data[p].special_abilities[2].name
    /\ Len(data[p].special_abilities[1].description) = 1

\* C10: a "Money:" line is never an equipment item: no entry of equipment
\* begins with "Money:", and every other line of the Equipment section yields
\* exactly one entry, its leading "-" removed.
C10_MoneyExcluded ==
  \A p \in Parsers :
    pc[p] = "done" =>
      LET eq == get_section_content(lines[p], Equipment)
          others == {i \in 1..Len(eq) : ~startswith(strip(eq[i]), MoneyPrefix)}
      IN /\ \A k \in 1..Len(data[p].equipment) :
              ~startswith(data[p].equipment[k], MoneyPrefix)
         /\ data[p].equipment
              = [m \in 1..Cardinality(others) |-> EquipmentItem(eq[Nth(others, m)])]

\* the header of the form f as the claim gives it
FormHeader(f) ==
  LET h0 == Put(Put(Put(EmptyDict, "name", f.n), "type", f.d[1]),
                "world", IF f.world = <<>> THEN Standard ELSE f.world[2])
      h1 == IF Len(f.d) > 1 THEN Put(h0, "focus", f.d[2]) ELSE h0
  IN IF Len(f.d) > 2 THEN Put(h1, "flavor", f.d[3]) ELSE h1

\* the header text ends in an "in a|an <world>" clause: group 3 of the pattern took part
WorldClause(t) == HeaderMatch(t).matched /\ HeaderMatch(t).has3

\* name, type and world are present and not empty; focus needs type, flavor needs focus
WellFormedHeader(h) ==
  /\ {"name", "type", "world"} \subseteq DOMAIN h
  /\ h["name"] # <<>> /\ h["type"] # <<>> /\ h["world"] # <<>>
  /\ (Has(h, "flavor") => Has(h, "focus"))
  /\ DOMAIN h \subseteq {"name", "type", "world", "focus", "flavor"}

\* C7 as stated: the header is empty or well formed, and world is "Standard"
\* exactly when the header text has no trailing world clause.
C7_StandardIffNoClause ==
  \A p \in Parsers :
    pc[p] = "done" =>
      \/ data[p].header = EmptyDict
      \/ /\ WellFormedHeader(data[p].header)
         /\ data[p].header["world"] = Standard <=> ~WorldClause(header_text(lines[p]))

\* C7 (amended): the header is empty or holds non-empty name, type and world,
\* focus only with type and flavor only with focus; world is "Standard" whenever
\* the header text has no trailing world clause and is the text of the clause
\* otherwise (which may itself read "Standard").
C7_HeaderInvariant ==
  \A p \in Parsers :
    pc[p] = "done" =>
      \/ data[p].header = EmptyDict
      \/ /\ WellFormedHeader(data[p].header)
         /\ IF WorldClause(header_text(lines[p]))
            THEN data[p].header["world"] = HeaderMatch(header_text(lines[p])).g3
            ELSE data[p].header["world"] = Standard

\* a header with three descriptors and a world of its own
C7_Witness ==
  \E p \in Parsers :
    /\ pc[p] = "done" /\ Has(data[p].header, "flavor")
    /\ WorldClause(header_text(lines[p]))
    /\ data[p].header["world"] # Standard

\* C8: a header sentence  N is a|an D1 [who|with D2 [who|with D3]] [in a|an W]
\* (keywords in any letter case, no keyword phrase inside N, D1..D3, W) yields
\* name N, type D1, focus D2, flavor D3 and world W, each when present.
C8_HeaderForm ==
  \A p \in Parsers :
    pc[p] = "done" =>
      \A f \in Forms : FormText(f) = text => data[p].header = FormHeader(f)

Zamira ==
  <<"Z","a","m","i","r","a"," ","i","s"," ","a"," ","W","e","i","r","d"," ","E","x","p","l","o","r","e","r"," ","w","h","o"," ","C","r","a","f","t","s"," ","I","l","l","u","s","i","o","n","s"," ","i","n"," ","a"," ","H","i","s","t","o","r","i","c","a","l"," ","w","o","r","l","d">>

\* the sentence of the Header scenario has been parsed
C8_Witness ==
  \E p \in Parsers :
    /\ pc[p] = "done" /\ text = Zamira
    /\ data[p].header =
         ("name" :> <<"Z","a","m","i","r","a">>) @@ ("type" :> <<"W","e","i","r","d"," ","E","x","p","l","o","r","e","r">>)
         @@ ("focus" :> <<"C","r","a","f","t","s"," ","I","l","l","u","s","i","o","n","s">>)
         @@ ("world" :> <<"H","i","s","t","o","r","i","c","a","l"," ","w","o","r","l","d">>)

AttributeKeys ==
  {"might", "speed", "intellect", "initiative", "effort", "armor", "xp",
   "recovery_roll"}

\* the line begins with the prefix of the key and matches the pattern of the key
KeyLine(key, line) ==
  CASE key = "might" -> startswith(line, MightPrefix) /\ SearchPool(line).matched
    [] key = "speed" -> startswith(line, SpeedPrefix) /\ SearchPool(line).matched
    [] key = "intellect" ->
         startswith(line, IntellectPrefix) /\ SearchPool(line).matched
    [] key = "initiative" ->
         /\ startswith(line, InitiativePrefix)
         /\ SearchLabel(line, InitiativePrefix, Word).matched
    [] key = "effort" ->
         startswith(line, EffortPrefix) /\ SearchLabel(line, EffortPrefix, Digit).matched
    [] key = "armor" ->
         startswith(line, ArmorPrefix) /\ SearchLabel(line, ArmorPrefix, Digit).matched
    [] key = "xp" ->
         /\ startswith(line, ExperiencePrefix)
         /\ SearchLabel(line, ExperiencePrefix, Digit).matched
    [] key = "recovery_roll" ->
         startswith(line, RecoveryPrefix) /\ SearchRest(line, RecoveryPrefix).matched

MightExample == <<"M","i","g","h","t",":"," ","P","o","o","l",":"," ","1","0"," ","E","d","g","e",":"," ","1"," ","D","e","f","e","n","s","e",":"," ","F","a","i","r">>

\* C9: once the attribute extractor has gone over the lines, each key is in
\* attributes iff some line begins with its prefix and matches its pattern,
\* whatever the other lines are; the pools hold non-negative integers, and the
\* line "Might: Pool: 10 Edge: 1 Defense: Fair", when it is the only Might line,
\* gives might = {pool: 10, edge: 1, defense: "Fair"}.
C9_AttributesIndependent ==
  \A p \in Parsers :
    pc[p] \notin {"header", "attributes"} =>
      /\ \A key \in AttributeKeys :
           Has(data[p].attributes, key)
             <=> \E i \in 1..Len(lines[p]) : KeyLine(key, lines[p][i])
      /\ \A key \in {"might", "speed", "intellect"} :
           Has(data[p].attributes, key) =>
             /\ data[p].attributes[key].pool \in Nat
             /\ data[p].attributes[key].edge \in Nat
      /\ ( /\ \E i \in 1..Len(lines[p]) : lines[p][i] = MightExample
           /\ \A i \in 1..Len(lines[p]) :
                startswith(lines[p][i], MightPrefix) => lines[p][i] = MightExample )
         => /\ Has(data[p].attributes, "might")
            /\ data[p].attributes["might"] = [pool |-> 10, edge |-> 1, defense |-> <<"F","a","i","r">>]

\* the field of each section and the name its extractor looks for
SectionFields ==
  {<<"special_abilities", SpecialAbilities>>, <<"skills", Skills>>,
   <<"attacks", Attacks>>, <<"cyphers", Cyphers>>, <<"equipment", Equipment>>,
   <<"advancements", Advancements>>, <<"background", Background>>,
   <<"notes", Notes>>}

\* no line of ls, trimmed and case-folded, is the name of the section
SectionAbsent(ls, marker) == FindMarker(ls, 1, marker) = 0

AttributePrefixes ==
  {MightPrefix, SpeedPrefix, IntellectPrefix, InitiativePrefix, EffortPrefix,
   ArmorPrefix, ExperiencePrefix, RecoveryPrefix}

\* no line of ls begins with an attribute prefix
NoAttributeLine(ls) ==
  \A i \in 1..Len(ls) : \A pre \in AttributePrefixes : ~startswith(ls[i], pre)

\* the header lines are empty or the header pattern does not match them
NoHeader(ls) == ls = <<>> \/ header_text(ls) = <<>> \/ HeaderMismatch(ls)

\* an absent section leaves its field at its default and without an
\* attribute-prefixed line attributes is {}; no absence raises: an exception
\* comes from a number that is present, in an attribute line, in the Cyphers
\* section or in the Advancements section
AbsenceLeavesDefault(p) ==
  /\ \A sf \in SectionFields :
       SectionAbsent(lines[p], sf[2]) => data[p][sf[1]] = NewData[sf[1]]
  /\ NoAttributeLine(lines[p]) => data[p].attributes = EmptyDict
  /\ ( /\ NoAttributeLine(lines[p])
       /\ SectionAbsent(lines[p], Cyphers)
       /\ SectionAbsent(lines[p], Advancements) ) => pc[p] # "raised"

RemoveSection(ls, marker) ==
  split(TextOf(SubSeq(ls, 1, FindMarker(ls, 1, marker) - 1)
               \o SubSeq(ls, EndIdx(ls, marker), Len(ls))))

\* the positions of the lines of the section, header line included
SectionRange(ls, marker) ==
  IF FindMarker(ls, 1, marker) = 0 THEN {}
  ELSE FindMarker(ls, 1, marker)..(EndIdx(ls, marker) - 1)

\* the two records agree on every field but one
EqualBut(r1, r2, field) == \A f \in DOMAIN r1 \ {field} : r1[f] = r2[f]

\* a blank line or a rule ends the header lines above the section's header
BelowHeaderLines(ls, marker) ==
  \E i \in 1..(FindMarker(ls, 1, marker) - 1) :
    strip(ls[i]) = <<>> \/ OnlyDashes(strip(ls[i]))

\* no line of the section begins with an attribute prefix
NoAttributeInside(ls, marker) ==
  \A i \in SectionRange(ls, marker) :
    \A pre \in AttributePrefixes : ~startswith(ls[i], pre)

\* the lines of the section belong to no other section
Apart(ls, marker) ==
  \A sf \in SectionFields :
    sf[2] # marker => SectionRange(ls, sf[2]) \cap SectionRange(ls, marker) = {}

\* re-parsing the text without the section returns a record that differs from
\* data[p] in the field of the section at most
IndependentOf(p, sf) ==
  /\ parse(RemoveSection(lines[p], sf[2])).ok
  /\ EqualBut(data[p], parse(RemoveSection(lines[p], sf[2])).value, sf[1])

\* C4 as stated: deleting any section present in the text and parsing again
\* changes the field of that section only.
C4_SectionIndependence ==
  \A p \in Parsers :
    pc[p] = "done" =>
      \A sf \in SectionFields :
        ~SectionAbsent(lines[p], sf[2]) => IndependentOf(p, sf)

\* C4 (amended): deleting a section and parsing again changes the field of
\* that section only, provided the section's header stands below the blank
\* line or rule that ends the header lines, none of its lines begins with an
\* attribute prefix, and its lines belong to no other section.
C4_IndependenceOfApartSections ==
  \A p \in Parsers :
    pc[p] = "done" =>
      \A sf \in SectionFields :
        ( /\ ~SectionAbsent(lines[p], sf[2])
          /\ BelowHeaderLines(lines[p], sf[2])
          /\ NoAttributeInside(lines[p], sf[2])
          /\ Apart(lines[p], sf[2]) )
        => IndependentOf(p, sf)

\* a sheet with a header, a Skills section that yields a skill and a Notes
\* section with an attribute line has been parsed, the Skills section being
\* one that the amended claim covers
C4_Witness ==
  \E p \in Parsers :
    /\ pc[p] = "done"
    /\ BelowHeaderLines(lines[p], Skills) /\ NoAttributeInside(lines[p], Skills)
    /\ Apart(lines[p], Skills)
    /\ data[p].skills # <<>> /\ Has(data[p].header, "name")
    /\ ~SectionAbsent(lines[p], Notes) /\ Has(data[p].attributes, "armor")
    /\ parse(RemoveSection(lines[p], Skills)).value.skills = <<>>

\* C5: two instances built from equal text, each parsed once, return equal
\* records (or raise alike, leaving equal records), and each record is the one
\* the text alone determines: nothing of one parse shows in the other, however
\* their steps interleave.
C5_Determinism ==
  \A p \in Parsers :
    /\ pc[p] \in {"done", "raised"} =>
         /\ data[p] = parse(lines[p]).value
         /\ (pc[p] = "done") = parse(lines[p]).ok
    /\ \A r \in Parsers : pc[p] = pc[r] => data[p] = data[r]

\* both parses of a text with a skill in it have returned
C5_Witness ==
  /\ Parsers = {1, 2}
  /\ pc[1] = "done" /\ pc[2] = "done"
  /\ data[1] = data[2] /\ data[1].skills # <<>>

RECURSIVE ExpectedCyphers(_, _, _)
\* the cyphers that the items from the i-th on add to out: a form line opens an
\* entry, a note goes to the description of the entry opened last
ExpectedCyphers(items, i, out) ==
  IF i > Len(items) THEN out
  ELSE IF items[i].kind = "form"
    THEN ExpectedCyphers(items, i + 1,
           Append(out, [name |-> items[i].name, level |-> items[i].level,
                        type |-> items[i].type, description |-> <<>>]))
  ELSE IF out = <<>> THEN ExpectedCyphers(items, i + 1, out)
  ELSE ExpectedCyphers(items, i + 1,
         [out EXCEPT ![Len(out)].description = Append(@, items[i].body)])

\* C11: in the Cyphers section every line "<name> (Level <integer>, <type>)"
\* opens a cypher with that name, that integer as level and that type, and the
\* description lines that follow it become its description; "Detonation
\* (Level 4, Ammo)" with one indented line after it gives exactly one cypher.
C11_CypherForm ==
  \A p \in Parsers :
    pc[p] = "done" =>
      \A items \in CypherItemSeqs :
        CypherText(items) = text => data[p].cyphers = ExpectedCyphers(items, 1, <<>>)

RECURSIVE ExpectedSkills(_, _, _)
\* the skills that the items from the i-th on add to out: a form line opens a
\* skill, a note goes to the description of the skill opened last
ExpectedSkills(items, i, out) ==
  IF i > Len(items) THEN out
  ELSE IF items[i].kind = "form"
    THEN ExpectedSkills(items, i + 1,
           Append(out, [name |-> items[i].name, level |-> items[i].level,
                        description |-> <<>>]))
  ELSE IF out = <<>> THEN ExpectedSkills(items, i + 1, out)
  ELSE ExpectedSkills(items, i + 1,
         [out EXCEPT ![Len(out)].description = Append(@, items[i].body)])

\* C12: in the Skills section every line "<name> (<level>)" opens a new skill
\* with that name and with the level token as it is written, for any level
\* token and any non-empty name; "Climbing (Adept)" gives name "Climbing" and
\* level "Adept".
C12_SkillForm ==
  \A p \in Parsers :
    pc[p] = "done" =>
      \A items \in SkillItemSeqs :
        SkillText(items) = text => data[p].skills = ExpectedSkills(items, 1, <<>>)

\* the names and the description lines of a list of entities
EntityStrings(ents) ==
  {ents[k].name : k \in 1..Len(ents)}
  \cup UNION {{ents[k].description[j] : j \in 1..Len(ents[k].description)} : k \in 1..Len(ents)}

\* the keys and the body lines of the subsections of a background or notes dict
SubsectionStrings(d) ==
  {d[k].key : k \in 1..Len(d)}
  \cup UNION {{d[k].body[j] : j \in 1..Len(d[k].body)} : k \in 1..Len(d)}

\* every string of the record that comes from a line of section content
ExtractedStrings(d) ==
  EntityStrings(d.special_abilities) \cup EntityStrings(d.skills)
  \cup EntityStrings(d.attacks) \cup EntityStrings(d.cyphers)
  \cup {d.equipment[k] : k \in 1..Len(d.equipment)}
  \cup (IF Has(d.advancements, "choices")
        THEN {d.advancements["choices"][k] : k \in 1..Len(d.advancements["choices"])}
        ELSE {})
  \cup SubsectionStrings(d.background) \cup SubsectionStrings(d.notes)

\* C13: rule lines never reach the record: no entity name, description line,
\* equipment entry, advancement choice, subsection key or subsection body line
\* is made of dashes only, whatever whitespace stands around the rule line.
C13_RulesDiscarded ==
  \A p \in Parsers : \A s \in ExtractedStrings(data[p]) : ~OnlyDashes(s)

\* the line of the content opens a subsection
OpensSubsection(line) ==
  line # <<>> /\ ~startswith(line, <<"\t">>) /\ looks_like_subsection_header(line)

\* d holds one entry for each title of content, and the body of each is made of
\* the lines that follow the last occurrence of the title, up to the next title
\* or the end
LastOccurrenceBodies(d, content) ==
  LET heads == {i \in 1..Len(content) : OpensSubsection(content[i])}
      titles == {strip(content[i]) : i \in heads}
  IN /\ {d[k].key : k \in 1..Len(d)} = titles
     /\ Len(d) = Cardinality(titles)
     /\ \A k \in 1..Len(d) :
          LET last == Max({i \in heads : strip(content[i]) = d[k].key})
              after == {j \in heads : j > last}
              nxt == IF after = {} THEN Len(content) + 1 ELSE Min(after)
          IN d[k].body
               = Picked(content, {j \in (last + 1)..(nxt - 1) : strip(content[j]) # <<>>})

\* C14: in background and in notes the subsection keys are unique, and a title
\* that is classified as a subsection header more than once has one entry, whose
\* body holds only the lines that follow its last occurrence, up to the next
\* subsection header or the end of the section.
C14_RepeatedTitleOverwrites ==
  \A p \in Parsers :
    pc[p] = "done" =>
      /\ LastOccurrenceBodies(data[p].background, get_section_content(lines[p], Background))
      /\ LastOccurrenceBodies(data[p].notes, get_section_content(lines[p], Notes))

\* a title came twice, with a body line after each occurrence, and the entry
\* holds the second body line only
C14_Witness ==
  \E p \in Parsers :
    /\ pc[p] = "done"
    /\ get_section_content(lines[p], Notes)
         = <<<<"O","r","i","g","i","n">>, <<" "," ","B","o","r","n"," ","a","t"," ","s","e","a",".">>, <<"O","r","i","g","i","n">>, <<"L","o","s","t"," ","a"," ","s","h","i","p",".">>>>
    /\ data[p].notes = <<[key |-> <<"O","r","i","g","i","n">>, body |-> <<<<"L","o","s","t"," ","a"," ","s","h","i","p",".">>>>]>>

\* the file is one on which reading, parsing or generating raises
Failing(f) == f.fault # "none" \/ f.content = LongNumber

RECURSIVE Reported(_, _)
\* what a run prints for the first k files: each file is announced once, in the
\* order of the list, and then reported as generated or as failed, by its name
Reported(files, k) ==
  IF k = 0 THEN <<[msg |-> "Found", name |-> <<>>]>>
  ELSE Reported(files, k - 1)
       \o <<[msg |-> "Processing", name |-> files[k].name],
            [msg |-> IF Failing(files[k]) THEN "Error processing" ELSE "Generated",
             name |-> files[k].name]>>

\* the run has printed the completion message and returned
Completed ==
  /\ batch.pc = "returned"
  /\ batch.out # <<>> /\ batch.out[Len(batch.out)].msg = "Conversion complete!"

\* at every place of the run the output is that of the files taken so far; the
\* file under way has been announced and not yet reported
AttemptedOnceInOrder ==
  /\ batch.pc = "for" => batch.out = Reported(batch.files, batch.i)
  /\ batch.pc \in {"read", "parse", "generate", "except"} =>
       batch.out = Reported(batch.files, batch.i - 1)
                   \o <<[msg |-> "Processing", name |-> CurrentFile.name]>>
  /\ batch.pc = "except" => Failing(CurrentFile)
  /\ Completed =>
       batch.out = Reported(batch.files, Len(batch.files))
                   \o <<[msg |-> "Conversion complete!", name |-> <<>>]>>
  /\ batch.pc \notin {"raised", "idle"}

\* C15 as stated: an exception while reading, parsing or generating a file is
\* caught and reported with the name of the file and the loop goes on; for every
\* list of input files and every set of failing files each file is attempted
\* exactly once, in list order, and the run reaches the completion message.
C15_EveryListCompletes ==
  /\ []AttemptedOnceInOrder
  /\ <>(batch.input = "missing" \/ Completed)

\* C15 (amended): the same for every list that is not empty; on an empty list
\* main() prints that no files matched and returns with no file attempted and
\* without the completion message.
C15_BatchCompletes ==
  /\ []AttemptedOnceInOrder
  /\ [](batch.pc = "returned" /\ batch.files = <<>> =>
          batch.out = <<[msg |-> "No files matched", name |-> <<>>]>>)
  /\ <>(batch.input = "missing" \/ batch.files = <<>> \/ Completed)

\* a run over three files has completed: the first failed in parse(), the
\* second in the generation, the third was generated
C15_Witness ==
  /\ Completed
  /\ Len(batch.files) = 3
  /\ batch.files[1].content = LongNumber
  /\ batch.files[2].fault = "generate"
  /\ ~Failing(batch.files[3])
  /\ batch.out[3].msg = "Error processing" /\ batch.out[7].msg = "Generated"

\* the fields of the sections, in the order of section_order
FieldNames ==
  <<"special_abilities", "skills", "attacks", "cyphers", "equipment", "advancements",
    "background", "notes">>

\* the field of the k-th section as its extractor builds it from the content
FieldOfContent(k, content) ==
  CASE k = 1 -> FlushLast(AbilityLoop(content, 1, LoopStart(<<>>)))
    [] k = 2 -> FlushLast(SkillLoop(content, 1, LoopStart(<<>>)))
    [] k = 3 -> FlushLast(AttackLoop(content, 1, LoopStart(<<>>)))
    [] k = 4 -> CypherLoop(content, 1, LoopStart(<<>>)).value
    [] k = 5 -> EquipmentLoop(content, 1, <<>>)
    [] k = 6 -> AdvancementLoop(content, 1, EmptyDict).value
    [] OTHER -> SubsectionLoop(content, 1, [dict |-> <<>>, cur |-> <<>>]).dict

\* the trimmed, case-folded line is the name of a section that comes after the
\* k-th in the canonical order
LaterName(line, k) ==
  \E j \in (k + 1)..Len(section_order) : lower(strip(line)) = lower(section_order[j])

\* the first line from start on that is the name of a later section, or the
\* position after the last line
ForwardEnd(ls, k, start) ==
  Min({i \in start..Len(ls) : LaterName(ls[i], k)} \cup {Len(ls) + 1})

\* C16: the content of a section whose header is found ends at the first line
\* after its start that is, trimmed and case-folded, the name of a section later
\* in the canonical order, or at the end of the text; the name of an earlier
\* section never ends it.
C16_ForwardOnlyEnd ==
  \A p \in Parsers :
    pc[p] = "done" =>
      \A k \in DOMAIN section_order :
        ~SectionAbsent(lines[p], section_order[k]) =>
          data[p][FieldNames[k]]
            = FieldOfContent(k, Content(lines[p], StartIdx(lines[p], section_order[k]),
                  ForwardEnd(lines[p], k, StartIdx(lines[p], section_order[k])) - 1))

\* an Equipment section that holds the name of the earlier Skills section as one
\* of its lines, and a line after it
C16_Witness ==
  \E p \in Parsers :
    /\ pc[p] = "done"
    /\ lines[p] = <<Equipment, Skills, <<"S","w","o","r","d">>>>
    /\ data[p].equipment = <<Skills, <<"S","w","o","r","d">>>>

\* the positions of the lines that are the name of the k-th section
Occurrences(ls, k) == {i \in 1..Len(ls) : IsMarker(ls[i], section_order[k])}

\* the position after the first occurrence, or after the rule that follows it
AfterFirst(ls, k) ==
  LET first == Min(Occurrences(ls, k))
  IN IF first + 1 <= Len(ls) /\ startswith(strip(ls[first + 1]), <<"-","-","-">>)
     THEN first + 2 ELSE first + 1

\* the field of the k-th section is built from the lines after the first
\* occurrence of its name, and the later occurrences in Later do not end the
\* section: each is one of its content lines
FirstOccurrenceHonoured(d, ls, k, Later) ==
  LET start == AfterFirst(ls, k)
      end == ForwardEnd(ls, k, start)
  IN /\ d[FieldNames[k]] = FieldOfContent(k, Content(ls, start, end - 1))
     /\ \A i \in Later :
          /\ start <= i /\ i < end
          /\ \E j \in 1..Len(Content(ls, start, end - 1)) :
               /\ Content(ls, start, end - 1)[j] = rstrip(ls[i])
               /\ j = Cardinality({m \in start..i : KeptLine(ls[m])})

\* C17 as stated: a section starts after the first occurrence of its name only,
\* and every later occurrence of the name is a content line of the section.
C17_LaterOccurrencesAreContent ==
  \A p \in Parsers :
    pc[p] = "done" =>
      \A k \in DOMAIN section_order :
        Occurrences(lines[p], k) # {} =>
          FirstOccurrenceHonoured(data[p], lines[p], k,
            Occurrences(lines[p], k) \ {Min(Occurrences(lines[p], k))})

\* C17 (amended): a section starts after the first occurrence of its name only;
\* no later occurrence of the name ends the section, and every later occurrence
\* that is not preceded by the name of a later section is a content line of it.
C17_FirstOccurrenceOnly ==
  \A p \in Parsers :
    pc[p] = "done" =>
      \A k \in DOMAIN section_order :
        Occurrences(lines[p], k) # {} =>
          /\ EndIdx(lines[p], section_order[k]) \notin Occurrences(lines[p], k)
          /\ FirstOccurrenceHonoured(data[p], lines[p], k,
               {i \in Occurrences(lines[p], k) \ {Min(Occurrences(lines[p], k))} :
                  \A m \in (Min(Occurrences(lines[p], k)) + 1)..(i - 1) :
                    ~LaterName(lines[p][m], k)})

\* the name Equipment stands a second time below an item, and is an item too
C17_Witness ==
  \E p \in Parsers :
    /\ pc[p] = "done"
    /\ lines[p] = <<Equipment, <<"S","w","o","r","d">>, Equipment>>
    /\ data[p].equipment = <<<<"S","w","o","r","d">>, Equipment>>

\* the line is blank
IsBlank(line) == strip(line) = <<>>

\* the line is a rule: dashes and nothing else
IsRule(line) == OnlyDashes(strip(line))

\* the lines strictly between positions h and e that are neither blank nor
\* rules, without their trailing whitespace, in their order
BetweenLines(ls, h, e) ==
  LET kept == SelectSeq(SubSeq(ls, h + 1, e - 1), LAMBDA l : ~IsBlank(l) /\ ~IsRule(l))
  IN [k \in 1..Len(kept) |-> rstrip(kept[k])]

\* C18: for a section with its header at line h and its end at e, the content is
\* exactly the lines strictly between h and e that are neither blank nor rules,
\* each without its trailing whitespace, in their order: the line after the
\* header is left out only when it is blank or a rule.
C18_ContentExact ==
  \A p \in Parsers :
    pc[p] = "done" =>
      \A k \in DOMAIN section_order :
        Occurrences(lines[p], k) # {} =>
          data[p][FieldNames[k]]
            = FieldOfContent(k, BetweenLines(lines[p], Min(Occurrences(lines[p], k)),
                                             EndIdx(lines[p], section_order[k])))

\* C19: in each of the four entity sections every content line is either a
\* start line, which names a new entity, or a line after a start line, which
\* goes to the description of the nearest entity before it and to no other, or
\* a line before the first start line, which is nowhere in the output; no
\* non-empty line that follows an open entity is dropped.
C19_EntityFold ==
  \A p \in Parsers :
    pc[p] = "done" =>
      /\ InSourceOrder(data[p].special_abilities,
                       get_section_content(lines[p], SpecialAbilities),
                       AbilityStart, StrippedLine, AnyLine)
      /\ InSourceOrder(data[p].skills, get_section_content(lines[p], Skills),
                       SkillStart, SkillName, AnyLine)
      /\ InSourceOrder(data[p].attacks, get_section_content(lines[p], Attacks),
                       AttackStart, StrippedLine, AnyLine)
      /\ InSourceOrder(data[p].cyphers, get_section_content(lines[p], Cyphers),
                       CypherStart, CypherName, AnyLine)

\* the line the loop is at opens a new entity
AtStartLine ==
  /\ loop.i <= Len(loop.content)
  /\ CASE loop.kind = "special_abilities" -> AbilityStart(loop.content[loop.i])
       [] loop.kind = "skills" -> SkillStart(loop.content[loop.i])
       [] loop.kind = "attacks" -> AttackStart(loop.content[loop.i])
       [] OTHER -> CypherStart(loop.content[loop.i])

\* C20: an entity is appended to the output list only when its boundary is
\* found, at the next start line or at the end of the lines, and it is appended
\* as it stands; from then on its name and its description do not change: at
\* every step of the loop the entries already in the list stay as they are.
C20_AppendedIsFinal ==
  [][ /\ Len(loop'.out) >= Len(loop.out)
      /\ SubSeq(loop'.out, 1, Len(loop.out)) = loop.out
      /\ loop'.out # loop.out =>
           /\ loop.cur # <<>>
           /\ loop'.out = loop.out \o loop.cur
           /\ AtStartLine \/ loop.i > Len(loop.content) ]_vars

\* a loop is over in which an entity with a description line was appended at
\* the start line of the next one, and that one at the end of the lines
C20_Witness ==
  /\ loop.pc = "done"
  /\ Len(loop.out) = 2
  /\ Len(loop.content) = 3
  /\ Len(loop.out[1].description) = 1 /\ loop.out[2].description = <<>>

\* the loop of _parse_attacks is at a line
AtAttackLine == loop.kind = "attacks" /\ loop.pc = "for" /\ loop.i <= Len(loop.content)

\* the step closes the open attack, if any, and opens one named by the line
OpensAttack ==
  /\ loop'.out = loop.out \o loop.cur
  /\ loop'.cur = <<[name |-> strip(loop.content[loop.i]), description |-> <<>>]>>

\* the step appends the line to the description of the open attack
DescribesAttack ==
  /\ loop.cur # <<>> /\ loop'.out = loop.out
  /\ loop'.cur = <<[loop.cur[1] EXCEPT !.description = @ \o <<strip(loop.content[loop.i])>>]>>

\* C21: in the Attacks section a content line opens a new attack iff it does
\* not begin with a space or a tab, consists only of letters and spaces and is
\* shorter than 50 characters; an indented line made only of letters and spaces
\* is a description line of the open attack, not a new attack.
C21_AttackOpens ==
  [][ AtAttackLine =>
        /\ OpensAttack <=> (/\ ~Indented(loop.content[loop.i])
                            /\ LettersOnly(loop.content[loop.i])
                            /\ Len(loop.content[loop.i]) < MaxAttackName)
        /\ (/\ Indented(loop.content[loop.i])
            /\ LettersOnly(strip(loop.content[loop.i]))
            /\ loop.cur # <<>>) => DescribesAttack ]_vars

\* the trimmed line begins with a bracket marker
Bracketed(line) == startswith(strip(line), <<"[">>)

\* the line holds "Tier:" followed by an integer
TierLine(line) == Contains(line, TierLabel) /\ SearchLabel(line, TierLabel, Digit).matched

\* C22: every line of the Advancements section whose trimmed text starts with
\* "[" is in advancements.choices, with its bracket marker and in source order,
\* whether or not the line also contains "Tier:"; and a line containing "Tier:"
\* followed by an integer sets advancements.tier to that integer.
C22_ChoicesAndTier ==
  \A p \in Parsers :
    pc[p] = "done" =>
      LET ad == get_section_content(lines[p], Advancements)
          adv == data[p].advancements
          tiers == {i \in 1..Len(ad) : TierLine(ad[i])}
      IN /\ (IF Has(adv, "choices") THEN adv["choices"] ELSE <<>>)
              = Picked(ad, {i \in 1..Len(ad) : Bracketed(ad[i])})
         /\ tiers # {} =>
              /\ Has(adv, "tier")
              /\ adv["tier"] = int(SearchLabel(ad[Max(tiers)], TierLabel, Digit).g1).value

\* the keys of the dict d
Keys(d) == {d[k].key : k \in 1..Len(d)}

\* the body of the key in the dict d, the empty sequence for a key not in d
BodyOf(d, key) ==
  IF key \in Keys(d) THEN d[CHOOSE k \in 1..Len(d) : d[k].key = key].body ELSE <<>>

\* C23: in the loop of Background and of Notes the keys are exactly the trimmed
\* lines classified as subsection headers so far; a header line gives its key
\* an empty body; every other line goes to the end of the body of the
\* subsection opened last and changes no other body; and a line before the
\* first header changes nothing in the record.
C23_SubsectionFold ==
  [][ (loop.kind \in {"background", "notes"} /\ loop.pc = "for"
       /\ loop.i <= Len(loop.content)) =>
        LET line == loop.content[loop.i]
            key == strip(line)
        IN /\ Keys(loop'.out)
                = {strip(loop.content[j]) :
                     j \in {h \in 1..loop.i : OpensSubsection(loop.content[h])}}
           /\ Len(loop'.out) = Cardinality(Keys(loop'.out))
           /\ IF OpensSubsection(line)
              THEN /\ loop'.cur = <<key>>
                   /\ BodyOf(loop'.out, key) = <<>>
                   /\ \A other \in Keys(loop.out) \ {key} :
                        BodyOf(loop'.out, other) = BodyOf(loop.out, other)
              ELSE IF loop.cur # <<>>
              THEN /\ loop'.cur = loop.cur
                   /\ BodyOf(loop'.out, loop.cur[1])
                        = BodyOf(loop.out, loop.cur[1]) \o <<key>>
                   /\ \A other \in Keys(loop.out) \ {loop.cur[1]} :
                        BodyOf(loop'.out, other) = BodyOf(loop.out, other)
              ELSE loop'.out = loop.out /\ loop'.cur = <<>> ]_vars

\* a body line came first and is nowhere; then two headers and a body line,
\* which is in the body of the second header only
C23_Witness ==
  /\ loop.pc = "done" /\ loop.kind = "background"
  /\ loop.content = <<<<"L","o","s","t"," ","a"," ","s","h","i","p",".">>, <<"O","r","i","g","i","n">>, <<"A","l","l","i","e","s">>, <<" "," ","B","o","r","n"," ","a","t"," ","s","e","a",".">>>>
  /\ loop.out = <<[key |-> <<"O","r","i","g","i","n">>, body |-> <<>>],
                  [key |-> <<"A","l","l","i","e","s">>, body |-> <<<<"B","o","r","n"," ","a","t"," ","s","e","a",".">>>>]>>

\* C24: in Background and in Notes a line that starts with a tab or a space is
\* never a subsection header: it opens no key, leaves the open subsection as it
\* is and, when one is open, goes to the end of its body, even if its trimmed
\* text passes the header heuristic.
C24_IndentedIsContinuation ==
  [][ (/\ loop.kind \in {"background", "notes"} /\ loop.pc = "for"
       /\ loop.i <= Len(loop.content)
       /\ Indented(loop.content[loop.i])) =>
        /\ Keys(loop'.out) = Keys(loop.out)
        /\ loop'.cur = loop.cur
        /\ loop.cur # <<>> =>
             BodyOf(loop'.out, loop.cur[1])
               = BodyOf(loop.out, loop.cur[1]) \o <<strip(loop.content[loop.i])>> ]_vars

\* the stoplist words
StopWords ==
  {<<"y","o","u">>, <<"t","h","i","s">>, <<"t","h","e","y">>, <<"t","h","e">>, <<"a">>, <<"a","n">>, <<"y","o","u","r">>, <<"p","o","s","s","i","b","l","e">>,
   <<"s","o","m","e","t","i","m","e","s">>, <<"d","e","p","e","n","d","i","n","g">>}

\* the words and the characters of the trimmed line of the form f
FormWords(f) == 1 + f.n

FormChars(f) == Len(f.first.w) + f.n * (1 + Len(f.filler.w)) + Len(f.end)

\* the tests of the heuristic on the form f, all but the stoplist test; titled
\* tells whether the line is title-cased
PassesOtherTests(f, titled) ==
  /\ f.end \notin {<<".">>, <<"!">>, <<"?">>, <<":">>}
  /\ FormWords(f) <= MaxHeaderWords /\ FormChars(f) <= MaxHeaderChars
  /\ titled \/ FormWords(f) <= ShortHeaderWords

C26_ExtractorsCommute ==
  [][ /\ lines' = lines
      /\ \A p \in Parsers :
           /\ \E f \in loop'.out \ loop.out : EqualBut(data[p], data'[p], f)
           /\ pc'[p] = "done" =>
                /\ parse(lines[p]).ok
                /\ data'[p] = parse(lines[p]).value ]_vars

\* on the full sheet every extractor but the header extractor has run, out of
\* the order of parse(): each of their fields holds something and the header
\* is still empty
C26_Witness ==
  \E p \in Parsers :
    /\ pc[p] = "any" /\ text = FullSheet
    /\ loop.out = ExtractorFields \ {"header"}
    /\ data[p].header = EmptyDict
    /\ \A f \in ExtractorFields \ {"header"} : data[p][f] # NewData[f]

\* C27: the header extractor undoes line wrapping: a header sentence broken
\* into several lines gives the header record of the same sentence on one line,
\* its pieces joined by single spaces; the lines read are those from the top up
\* to the first blank line or rule, so that a line directly below the sentence
\* is one more piece of it and no line at or after the first blank line or rule
\* has any influence on the header.
C27_WrappedHeader ==
  \A p \in Parsers :
    (loop.kind = "wrapped" /\ pc[p] # "header") =>
      /\ data[p].header = parse_header(loop.content, EmptyDict).value
      /\ loop.content[1] = FormText(loop.form) => data[p].header = FormHeader(loop.form)

\* a sentence broken into three lines, with a rule and another sentence below
\* it, has been parsed: the header is the one of the sentence
C27_Witness ==
  \E p \in Parsers :
    /\ pc[p] = "done" /\ loop.kind = "wrapped" /\ loop.i = 2
    /\ Len(lines[p]) = 5 /\ lines[p][4] = <<"-","-","-">> /\ lines[p][5] = WrapRest
    /\ Has(data[p].header, "focus")
    /\ data[p].header["name"] = <<"Z","a","m","i","r","a">>
    /\ data[p].header["world"] = <<"H","i","s","t","o","r","i","c","a","l"," ","w","o","r","l","d">>

\* C28: a second call of parse() on the same instance returns a record equal
\* to the one the first call returned: every sequence of the record has the
\* same length and contents after the second call as after the first.
C28_ReparseEqual ==
  \A p \in Parsers :
    (loop.kind = "reparse" /\ loop.i = 2 /\ pc[p] = "done") => data[p] = loop.out[1]

\* the positions of the lines that are content of the section
ContentRange(ls, marker) ==
  IF StartIdx(ls, marker) = 0 THEN {}
  ELSE {i \in StartIdx(ls, marker)..(EndIdx(ls, marker) - 1) : KeptLine(ls[i])}

\* C29 as stated: the content ranges of the eight sections are pairwise
\* disjoint for every arrangement of section header lines, headers out of the
\* canonical order included: no line is content of two sections.
C29_RangesDisjoint ==
  \A p \in Parsers :
    \A a, b \in DOMAIN section_order :
      a # b =>
        ContentRange(lines[p], section_order[a])
          \cap ContentRange(lines[p], section_order[b]) = {}

\* C29: the content ranges of two sections are disjoint whenever the header of
\* the one that comes first in the canonical order also comes first in the
\* text (first occurrences): no line is content of both.
C29_InOrderRangesDisjoint ==
  \A p \in Parsers :
    \A a, b \in DOMAIN section_order :
      (/\ a < b
       /\ FindMarker(lines[p], 1, section_order[a]) # 0
       /\ FindMarker(lines[p], 1, section_order[a])
            < FindMarker(lines[p], 1, section_order[b])) =>
        ContentRange(lines[p], section_order[a])
          \cap ContentRange(lines[p], section_order[b]) = {}

\* a sheet with a Skills section and below it an Equipment section, each with
\* content of its own, has been parsed
C29_Witness ==
  \E p \in Parsers :
    /\ pc[p] = "done"
    /\ FindMarker(lines[p], 1, Skills) # 0
    /\ FindMarker(lines[p], 1, Skills) < FindMarker(lines[p], 1, Equipment)
    /\ ContentRange(lines[p], Skills) # {} /\ ContentRange(lines[p], Equipment) # {}
    /\ data[p].skills # <<>> /\ data[p].equipment # <<>>

\* the positions of the lines that begin with the prefix of the key and match
\* its pattern
KeyLines(ls, key) == {i \in 1..Len(ls) : KeyLine(key, ls[i])}

\* C30: in the attribute extractor, when several lines begin with the same
\* prefix, the value stored for the key is the one of the last such line that
\* matches the pattern of the key; a prefixed line that fails its pattern leaves
\* the value of an earlier line as it is and writes no key.
C30_LastMatchingLine ==
  \A p \in Parsers :
    pc[p] \notin {"header", "attributes"} =>
      \A key \in AttributeKeys :
        IF KeyLines(lines[p], key) = {}
        THEN ~Has(data[p].attributes, key)
        ELSE /\ Has(data[p].attributes, key)
             /\ data[p].attributes[key]
                  = AttributeLine(EmptyDict,
                                  lines[p][Max(KeyLines(lines[p], key))]).value[key]

====
